---- MODULE Spec2Model ----
(***************************************************************************)
(* Ants Vs. SomeBees (src/ants/ants.py): the places, the insects and the   *)
(* AntColony.simulate loop, as a state machine.                            *)
(*                                                                         *)
(* Objects are numbered: ants 1..Len(ants) in construction order, bees     *)
(* 1..Len(bees) in the order of AssaultPlan.all_bees; 0 stands for None.   *)
(* A place is named by the triple <<kind, tunnel, step>>, the parts of the *)
(* name mixed_layout gives it ('tunnel_0_1', 'water_0_2').  A method that  *)
(* mutates objects is an operator from a world (the record of all mutable  *)
(* objects) to a world; a raised exception is the world's field err, and   *)
(* every statement after the raise is skipped.                             *)
(***************************************************************************)
EXTENDS Integers, Sequences, FiniteSets, TLC

\* ------------------------------------------------------------------ bounds
MaxTime == 4       \* turns simulate is followed for
MaxAnts == 2       \* ants constructed and placed in one game
MaxCalls == 2      \* calls a strategy makes in one turn
MaxTunnels == 1    \* tunnels of a layout
MaxLength == 2     \* places of a tunnel
MaxBees == 2       \* bees of an assault plan
MaxWaveTime == 2   \* the latest wave of an assault plan
ApiMaxTime == 1    \* turns followed when the objects are also called directly
ApiBees == 1       \* bees of the plan when the objects are also called directly
RangeLength == 6   \* places of the tunnel the throwers are tried in
FxMaxTime == 6     \* turns simulate is followed for when bees carry effects
FxLength == 3      \* places of the tunnel the bees with effects fly through
DigestWave == 4    \* the latest second wave of the plans a HungryAnt is tried on
QueenAnts == 3     \* ants constructed in one game with a QueenAnt
QueenTime == 2     \* turns simulate is followed for in a game with a QueenAnt

\* ------------------------------------------------------------- ant classes
\* The class attributes of every Ant subclass, and the armor its constructor
\* passes to Insect.__init__.
AntClass ==
  [ Harvester |-> [armor |-> 1, damage |-> 0, food_cost |-> 2, blocks_path |-> TRUE,
                   container |-> FALSE, watersafe |-> FALSE, implemented |-> TRUE,
                   min_range |-> 0, max_range |-> 0],
    Thrower   |-> [armor |-> 1, damage |-> 1, food_cost |-> 4, blocks_path |-> TRUE,
                   container |-> FALSE, watersafe |-> FALSE, implemented |-> TRUE,
                   min_range |-> 0, max_range |-> 10],
    Fire      |-> [armor |-> 1, damage |-> 3, food_cost |-> 4, blocks_path |-> TRUE,
                   container |-> FALSE, watersafe |-> FALSE, implemented |-> TRUE,
                   min_range |-> 0, max_range |-> 0],
    Long      |-> [armor |-> 1, damage |-> 1, food_cost |-> 3, blocks_path |-> TRUE,
                   container |-> FALSE, watersafe |-> FALSE, implemented |-> TRUE,
                   min_range |-> 4, max_range |-> 10],
    Short     |-> [armor |-> 1, damage |-> 1, food_cost |-> 3, blocks_path |-> TRUE,
                   container |-> FALSE, watersafe |-> FALSE, implemented |-> TRUE,
                   min_range |-> 0, max_range |-> 2],
    Wall      |-> [armor |-> 4, damage |-> 0, food_cost |-> 4, blocks_path |-> TRUE,
                   container |-> FALSE, watersafe |-> FALSE, implemented |-> TRUE,
                   min_range |-> 0, max_range |-> 0],
    Ninja     |-> [armor |-> 1, damage |-> 1, food_cost |-> 6, blocks_path |-> FALSE,
                   container |-> FALSE, watersafe |-> FALSE, implemented |-> TRUE,
                   min_range |-> 0, max_range |-> 0],
    Scuba     |-> [armor |-> 1, damage |-> 1, food_cost |-> 5, blocks_path |-> TRUE,
                   container |-> FALSE, watersafe |-> TRUE, implemented |-> TRUE,
                   min_range |-> 0, max_range |-> 10],
    Hungry    |-> [armor |-> 1, damage |-> 0, food_cost |-> 4, blocks_path |-> TRUE,
                   container |-> FALSE, watersafe |-> FALSE, implemented |-> TRUE,
                   min_range |-> 0, max_range |-> 0],
    Bodyguard |-> [armor |-> 2, damage |-> 0, food_cost |-> 4, blocks_path |-> TRUE,
                   container |-> TRUE, watersafe |-> FALSE, implemented |-> FALSE,
                   min_range |-> 0, max_range |-> 0],
    Queen     |-> [armor |-> 1, damage |-> 1, food_cost |-> 6, blocks_path |-> TRUE,
                   container |-> FALSE, watersafe |-> TRUE, implemented |-> TRUE,
                   min_range |-> 0, max_range |-> 10],
    Remover   |-> [armor |-> 0, damage |-> 0, food_cost |-> 0, blocks_path |-> TRUE,
                   container |-> FALSE, watersafe |-> FALSE, implemented |-> TRUE,
                   min_range |-> 0, max_range |-> 0],
    Slow      |-> [armor |-> 1, damage |-> 1, food_cost |-> 4, blocks_path |-> TRUE,
                   container |-> FALSE, watersafe |-> FALSE, implemented |-> TRUE,
                   min_range |-> 0, max_range |-> 10],
    Stun      |-> [armor |-> 1, damage |-> 1, food_cost |-> 6, blocks_path |-> TRUE,
                   container |-> FALSE, watersafe |-> FALSE, implemented |-> TRUE,
                   min_range |-> 0, max_range |-> 10] ]

AntNames == DOMAIN AntClass

\* The classes whose action is ThrowerAnt.action (ThrowerAnt and its subclasses
\* other than QueenAnt, which overrides action).
ThrowerClasses == {"Thrower", "Long", "Short", "Scuba", "Slow", "Stun"}

\* ------------------------------------------------------------------ places
NoPlace == <<"None", 0, 0>>
Hive == <<"Hive", 0, 0>>
AntQueen == <<"AntQueen", 0, 0>>

VARIABLES
  layout,         \* the arguments of mixed_layout: [tunnels, length, moat_frequency]
  assault_plan,   \* hive.assault_plan: [bee_armor, waves], waves a sequence of [time, count]
  ant_types,      \* the keys of colony.ant_types
  time,           \* colony.time
  food,           \* colony.food
  queen,          \* colony.queen: the place of the QueenAnt once a QueenPlace, else NoPlace
  is_true_queen,  \* the class attribute QueenAnt.is_true_queen
  ants,           \* every Ant placed so far
  bees,           \* every Bee of the assault plan
  place_ant,      \* Place.ant of every place
  place_bees,     \* Place.bees of every place
  pc,             \* where simulate is
  todo,           \* the rest of the list the running for loop of simulate iterates
  calls,          \* calls the strategy has made in this turn
  exception,      \* the exception the strategy's last call raised, "none" without
  log,            \* what simulate has done in the current turn, in order
  who,            \* hog.play: the player about to take a turn
  score0,         \* hog.play: the score of player 0
  score1,         \* hog.play: the score of player 1
  points,         \* hog.play: what the last take_turn returned, 0 before the first
  play_pc         \* where hog.play is: "idle" when it is not called

vars == <<layout, assault_plan, ant_types, time, food, queen, is_true_queen, ants,
          bees, place_ant, place_bees, pc, todo, calls, exception, log,
          who, score0, score1, points, play_pc>>

config == <<layout, assault_plan, ant_types>>
hog == <<who, score0, score1, points, play_pc>>

\* mixed_layout: the place built at `step` of `tunnel`.
PlaceAt(tunnel, step) ==
  << IF layout.moat_frequency # 0 /\ (step + 1) % layout.moat_frequency = 0
       THEN "water" ELSE "tunnel",
     tunnel, step >>

\* colony.places.values(): the Hive, then every tunnel from the queen's end, in
\* the order mixed_layout registers them.
places ==
  <<Hive>> \o [i \in 1..(layout.tunnels * layout.length) |->
                PlaceAt((i - 1) \div layout.length, (i - 1) % layout.length)]

Range(s) == {s[i] : i \in DOMAIN s}

AllPlaces == Range(places) \cup {AntQueen}

\* A tunnel whose places exit two places further on.
Place_exit_two(p) ==
  IF p[1] \in {"tunnel", "water"}
    THEN IF p[3] <= 1 THEN AntQueen ELSE PlaceAt(p[2], p[3] - 2)
    ELSE NoPlace

\* A tunnel whose place next to the queen has no exit.
Place_exit_none(p) ==
  IF p[1] \in {"tunnel", "water"}
    THEN IF p[3] = 0 THEN NoPlace ELSE PlaceAt(p[2], p[3] - 1)
    ELSE NoPlace

\* Place.exit, as Place.__init__ is given it by mixed_layout.
Place_exit(p) ==
  IF p[1] \in {"tunnel", "water"}
    THEN IF p[3] = 0 THEN AntQueen ELSE PlaceAt(p[2], p[3] - 1)
    ELSE NoPlace

\* Place.entrance: set by the constructor of the place that exits here, and to
\* the hive by register_place for the last place of a tunnel.
Place_entrance(p) ==
  IF p[1] \in {"tunnel", "water"}
    THEN IF p[3] = layout.length - 1 THEN Hive ELSE PlaceAt(p[2], p[3] + 1)
    ELSE IF p = AntQueen /\ layout.length > 0 /\ layout.tunnels > 0
      THEN PlaceAt(layout.tunnels - 1, 0)
      ELSE NoPlace

\* Hive.strategy's exits: the places whose entrance is the hive.
bee_entrances == {p \in Range(places) : Place_entrance(p) = Hive}

\* ------------------------------------------------------------------ worlds
\* The mutable objects a method can reach, and the exception it has raised.
World ==
  [ants |-> ants, bees |-> bees, place_ant |-> place_ant, place_bees |-> place_bees,
   food |-> food, queen |-> queen, is_true_queen |-> is_true_queen, err |-> "none"]

Raise(W, e) == [W EXCEPT !.err = e]

\* An insect is <<"ant", id>> or <<"bee", id>>.
is_ant(insect) == insect[1] = "ant"

armor(W, insect) ==
  IF is_ant(insect) THEN W.ants[insect[2]].armor ELSE W.bees[insect[2]].armor

place(W, insect) ==
  IF is_ant(insect) THEN W.ants[insect[2]].place ELSE W.bees[insect[2]].place

watersafe(W, insect) ==
  IF is_ant(insect) THEN AntClass[W.ants[insect[2]].type].watersafe ELSE TRUE

SetPlace(W, insect, p) ==
  IF is_ant(insect)
    THEN [W EXCEPT !.ants[insect[2]].place = p]
    ELSE [W EXCEPT !.bees[insect[2]].place = p]

\* Insect.is_queen, QueenAnt.is_queen
is_queen(W, insect) ==
  is_ant(insect) /\ W.ants[insect[2]].is_true_queen

\* Ant.contained_ant, BodyguardAnt.contained_ant (0 is None)
contained_ant(W, a) ==
  IF AntClass[W.ants[a].type].container THEN W.ants[a].ant ELSE 0

\* can_contain without its test of other.container
can_contain_any(W, a, other) ==
  IF ~AntClass[W.ants[a].type].container THEN FALSE
  ELSE IF contained_ant(W, a) # 0 THEN FALSE
  ELSE TRUE

\* Ant.can_contain
can_contain(W, a, other) ==
  IF ~AntClass[W.ants[a].type].container THEN FALSE
  ELSE IF contained_ant(W, a) # 0 THEN FALSE
  ELSE IF AntClass[W.ants[other].type].container THEN FALSE
  ELSE TRUE

\* list.remove: the list without the first occurrence of x.
RECURSIVE ListRemove(_, _)
ListRemove(l, x) ==
  IF l = << >> THEN << >>
  ELSE IF Head(l) = x THEN Tail(l)
  ELSE <<Head(l)>> \o ListRemove(Tail(l), x)

\* remove_insect without the early return for the queen
Place_remove_insect_queen(W, p, insect) ==
  IF W.err # "none" THEN W
  ELSE IF ~is_ant(insect)
    THEN IF insect[2] \notin Range(W.place_bees[p])
           THEN Raise(W, "ValueError")
           ELSE SetPlace([W EXCEPT !.place_bees[p] = ListRemove(@, insect[2])],
                         insect, NoPlace)
    ELSE IF W.place_ant[p] # insect[2]
           THEN Raise(W, "AssertionError")
           ELSE SetPlace([W EXCEPT !.place_ant[p] = contained_ant(W, insect[2])],
                         insect, NoPlace)

\* Place.remove_insect
Place_remove_insect(W, p, insect) ==
  IF W.err # "none" THEN W
  ELSE IF is_queen(W, insect) THEN W
  ELSE IF ~is_ant(insect)
    THEN IF insect[2] \notin Range(W.place_bees[p])
           THEN Raise(W, "ValueError")
           ELSE SetPlace([W EXCEPT !.place_bees[p] = ListRemove(@, insect[2])],
                         insect, NoPlace)
    ELSE IF W.place_ant[p] # insect[2]
           THEN Raise(W, "AssertionError")
           ELSE SetPlace([W EXCEPT !.place_ant[p] = contained_ant(W, insect[2])],
                         insect, NoPlace)

\* self.place.remove_insect(self): None has no remove_insect.
RemoveFromOwnPlace(W, insect) ==
  IF W.err # "none" THEN W
  ELSE IF place(W, insect) = NoPlace THEN Raise(W, "AttributeError")
  ELSE Place_remove_insect(W, place(W, insect), insect)

\* reduce_armor that removes the insect only once its armor is below zero
Insect_reduce_armor_below_zero(W, insect, amount) ==
  IF W.err # "none" THEN W
  ELSE LET W1 == IF is_ant(insect)
                   THEN [W EXCEPT !.ants[insect[2]].armor = @ - amount]
                   ELSE [W EXCEPT !.bees[insect[2]].armor = @ - amount]
       IN IF armor(W1, insect) < 0 THEN RemoveFromOwnPlace(W1, insect) ELSE W1

\* Insect.reduce_armor
Insect_reduce_armor(W, insect, amount) ==
  IF W.err # "none" THEN W
  ELSE LET W1 == IF is_ant(insect)
                   THEN [W EXCEPT !.ants[insect[2]].armor = @ - amount]
                   ELSE [W EXCEPT !.bees[insect[2]].armor = @ - amount]
       IN IF armor(W1, insect) <= 0 THEN RemoveFromOwnPlace(W1, insect) ELSE W1

\* for bee in l: bee.reduce_armor(amount), l a list of bees
RECURSIVE ReduceEach(_, _, _)
ReduceEach(W, l, amount) ==
  IF l = << >> \/ W.err # "none" THEN W
  ELSE ReduceEach(Insect_reduce_armor(W, <<"bee", Head(l)>>, amount), Tail(l), amount)

\* FireAnt.reduce_armor calling Insect.reduce_armor before it goes through the
\* bees of its place.
FireAnt_reduce_armor_after(W, a, amount) ==
  IF W.err # "none" THEN W
  ELSE LET W1 == Insect_reduce_armor(W, <<"ant", a>>, amount)
       IN IF W.ants[a].armor <= amount /\ W1.err = "none"
            THEN IF W1.ants[a].place = NoPlace
                   THEN Raise(W1, "AttributeError")
                   ELSE ReduceEach(W1, W1.place_bees[W1.ants[a].place],
                                   W1.ants[a].damage)
            ELSE W1

\* FireAnt.reduce_armor
FireAnt_reduce_armor(W, a, amount) ==
  IF W.err # "none" THEN W
  ELSE LET W1 == IF W.ants[a].armor <= amount
                   THEN IF W.ants[a].place = NoPlace
                          THEN Raise(W, "AttributeError")
                          ELSE ReduceEach(W, W.place_bees[W.ants[a].place],
                                          W.ants[a].damage)
                   ELSE W
       IN Insect_reduce_armor(W1, <<"ant", a>>, amount)

\* insect.reduce_armor(amount), by the class of insect
reduce_armor(W, insect, amount) ==
  IF is_ant(insect) /\ W.ants[insect[2]].type = "Fire"
    THEN FireAnt_reduce_armor(W, insect[2], amount)
    ELSE Insect_reduce_armor(W, insect, amount)

\* Place.add_insect giving the slot to the new ant when neither ant can
\* contain the other.
Place_add_insect_over(W, p, insect) ==
  IF W.err # "none" THEN W
  ELSE IF is_ant(insect)
    THEN LET a == insect[2]
             cur == W.place_ant[p]
         IN IF cur = 0
              THEN SetPlace([W EXCEPT !.place_ant[p] = a], insect, p)
            ELSE IF can_contain(W, cur, a)
              THEN SetPlace([W EXCEPT !.ants[cur].ant = a], insect, p)
            ELSE IF can_contain(W, a, cur)
              THEN SetPlace([W EXCEPT !.ants[a].ant = cur, !.place_ant[p] = a],
                            insect, p)
            ELSE SetPlace([W EXCEPT !.place_ant[p] = a], insect, p)
    ELSE SetPlace([W EXCEPT !.place_bees[p] = Append(@, insect[2])], insect, p)

\* Place.add_insect
Place_add_insect(W, p, insect) ==
  IF W.err # "none" THEN W
  ELSE IF is_ant(insect)
    THEN LET a == insect[2]
             cur == W.place_ant[p]
         IN IF cur = 0
              THEN SetPlace([W EXCEPT !.place_ant[p] = a], insect, p)
            ELSE IF can_contain(W, cur, a)
              THEN SetPlace([W EXCEPT !.ants[cur].ant = a], insect, p)
            ELSE IF can_contain(W, a, cur)
              THEN SetPlace([W EXCEPT !.ants[a].ant = cur, !.place_ant[p] = a],
                            insect, p)
            ELSE Raise(W, "AssertionError")
    ELSE SetPlace([W EXCEPT !.place_bees[p] = Append(@, insect[2])], insect, p)

\* Water.add_insect
Water_add_insect(W, p, insect) ==
  LET W1 == Place_add_insect(W, p, insect)
  IN IF W1.err # "none" THEN W1
     ELSE IF ~watersafe(W1, insect)
       THEN reduce_armor(W1, insect, armor(W1, insect))
       ELSE W1

\* place.add_insect(insect), by the class of place
add_insect(W, p, insect) ==
  IF p[1] = "water" THEN Water_add_insect(W, p, insect)
  ELSE Place_add_insect(W, p, insect)

\* move_to that adds the bee to the new place and leaves it in the old one
move_to_no_remove(W, b, p) ==
  IF W.err # "none" THEN W
  ELSE IF p = NoPlace THEN Raise(W, "AttributeError")
  ELSE add_insect(W, p, <<"bee", b>>)

\* Bee.move_to
move_to(W, b, p) ==
  IF W.err # "none" THEN W
  ELSE LET W1 == RemoveFromOwnPlace(W, <<"bee", b>>)
       IN IF W1.err # "none" THEN W1
          ELSE IF p = NoPlace THEN Raise(W1, "AttributeError")
          ELSE add_insect(W1, p, <<"bee", b>>)

\* ------------------------------------------------------------ constructors
\* Ant.__init__ and the __init__ of its subclasses: the new ant is the last of
\* W.ants.  QueenAnt.__init__ takes the class attribute and clears it.
Construct(W, ant_type_name) ==
  LET new == [type |-> ant_type_name,
              armor |-> AntClass[ant_type_name].armor,
              place |-> NoPlace,
              ant |-> 0,
              damage |-> AntClass[ant_type_name].damage,
              damage_doubled |-> FALSE,
              is_true_queen |-> ant_type_name = "Queen" /\ W.is_true_queen,
              digesting |-> 0]
  IN [W EXCEPT !.ants = Append(@, new),
               !.is_true_queen = IF ant_type_name = "Queen" THEN FALSE ELSE @]

\* An ant that was constructed and never placed is referenced by nothing: it is
\* not kept among the objects.
DropUnplaced(W0, W) ==
  IF Len(W.ants) > Len(W0.ants) /\ W.ants[Len(W.ants)].place = NoPlace
       /\ W.err # "none"
    THEN [W EXCEPT !.ants = SubSeq(@, 1, Len(W0.ants))]
    ELSE W

\* deploy_ant without the test of the food.
deploy_ant_unchecked(W, place_name, ant_type_name) ==
  IF ant_type_name \notin ant_types THEN Raise(W, "KeyError")
  ELSE IF place_name \notin Range(places) THEN Raise(W, "KeyError")
  ELSE LET W1 == Construct(W, ant_type_name)
           W2 == add_insect(W1, place_name, <<"ant", Len(W1.ants)>>)
       IN IF W2.err # "none" THEN DropUnplaced(W, W2)
          ELSE [W2 EXCEPT !.food = @ - AntClass[ant_type_name].food_cost]

\* deploy_ant refusing the ant unless the food is more than its cost.
deploy_ant_needs_more(W, place_name, ant_type_name) ==
  IF ant_type_name \notin ant_types THEN Raise(W, "KeyError")
  ELSE IF W.food <= AntClass[ant_type_name].food_cost THEN W
  ELSE IF place_name \notin Range(places) THEN Raise(W, "KeyError")
  ELSE LET W1 == Construct(W, ant_type_name)
           W2 == add_insect(W1, place_name, <<"ant", Len(W1.ants)>>)
       IN IF W2.err # "none" THEN DropUnplaced(W, W2)
          ELSE [W2 EXCEPT !.food = @ - AntClass[ant_type_name].food_cost]

\* ---------------------------------------------------------------- AntColony
\* AntColony.deploy_ant
deploy_ant(W, place_name, ant_type_name) ==
  IF ant_type_name \notin ant_types THEN Raise(W, "KeyError")
  ELSE IF W.food < AntClass[ant_type_name].food_cost THEN W
  ELSE IF place_name \notin Range(places) THEN Raise(W, "KeyError")
  ELSE LET W1 == Construct(W, ant_type_name)
           W2 == add_insect(W1, place_name, <<"ant", Len(W1.ants)>>)
       IN IF W2.err # "none" THEN DropUnplaced(W, W2)
          ELSE [W2 EXCEPT !.food = @ - AntClass[ant_type_name].food_cost]

\* remove_ant without the test that the slot holds an ant: remove_insect is
\* called with None.
remove_ant_unguarded(W, place_name) ==
  IF place_name \notin Range(places) THEN Raise(W, "KeyError")
  ELSE IF W.place_ant[place_name] # 0
    THEN Place_remove_insect(W, place_name, <<"ant", W.place_ant[place_name]>>)
    ELSE Raise(W, "AttributeError")

\* AntColony.remove_ant
remove_ant(W, place_name) ==
  IF place_name \notin Range(places) THEN Raise(W, "KeyError")
  ELSE IF W.place_ant[place_name] # 0
    THEN Place_remove_insect(W, place_name, <<"ant", W.place_ant[place_name]>>)
    ELSE W

\* AntColony.ants listing the places from the last one to the first.
colony_ants_reversed(W) ==
  LET s == SelectSeq([i \in DOMAIN places |-> W.place_ant[places[i]]],
                     LAMBDA a : a # 0)
  IN [i \in 1..Len(s) |-> s[Len(s) + 1 - i]]

\* AntColony.ants
colony_ants(W) ==
  SelectSeq([i \in DOMAIN places |-> W.place_ant[places[i]]], LAMBDA a : a # 0)

RECURSIVE Flatten(_)
Flatten(ll) == IF ll = << >> THEN << >> ELSE Head(ll) \o Flatten(Tail(ll))

\* AntColony.bees
\* colony.bees that lists every bee twice
colony_bees_twice(W) ==
  Flatten([i \in DOMAIN places |-> W.place_bees[places[i]]])
    \o Flatten([i \in DOMAIN places |-> W.place_bees[places[i]]])

colony_bees(W) == Flatten([i \in DOMAIN places |-> W.place_bees[places[i]]])

\* QueenPlace.bees and Place.bees of colony.queen, as a set
queen_bees(W) ==
  Range(W.place_bees[AntQueen])
    \cup (IF W.queen = NoPlace THEN {} ELSE Range(W.place_bees[W.queen]))

\* nearest_bee without the test of min_range.
RECURSIVE nearest_bee_no_min(_, _, _, _)
nearest_bee_no_min(W, a, p, range) ==
  IF p = Hive \/ p = NoPlace THEN {}
  ELSE IF range <= AntClass[W.ants[a].type].max_range
            /\ W.place_bees[p] # << >>
    THEN Range(W.place_bees[p])
    ELSE nearest_bee_no_min(W, a, Place_entrance(p), range + 1)

\* ------------------------------------------------------------- ant actions
\* ThrowerAnt.nearest_bee: the bees random_or_none may return, none when it
\* returns None.
RECURSIVE nearest_bee(_, _, _, _)
nearest_bee(W, a, p, range) ==
  IF p = Hive \/ p = NoPlace THEN {}
  ELSE IF AntClass[W.ants[a].type].min_range <= range
            /\ range <= AntClass[W.ants[a].type].max_range
            /\ W.place_bees[p] # << >>
    THEN Range(W.place_bees[p])
    ELSE nearest_bee(W, a, Place_entrance(p), range + 1)

\* apply_effect that puts the new effect in the place of one of its kind
apply_effect_replace(W, effect, b, duration) ==
  LET e == W.bees[b].effects
      new == [effect |-> effect, duration |-> duration, count |-> 0]
  IN IF \E i \in DOMAIN e : e[i].effect = effect
       THEN [W EXCEPT !.bees[b].effects =
               [i \in DOMAIN e |-> IF e[i].effect = effect THEN new ELSE e[i]]]
       ELSE [W EXCEPT !.bees[b].effects = Append(e, new)]

\* apply_effect(effect, bee, duration)
apply_effect(W, effect, b, duration) ==
  [W EXCEPT !.bees[b].effects =
     Append(@, [effect |-> effect, duration |-> duration, count |-> 0])]

\* throw_at with a SlowThrower whose slow lasts two turns
throw_at_slow_two(W, a, target) ==
  IF target = 0 THEN W
  ELSE IF W.ants[a].type = "Slow" THEN apply_effect(W, "slow", target, 2)
  ELSE IF W.ants[a].type = "Stun" THEN apply_effect(W, "stun", target, 1)
  ELSE reduce_armor(W, <<"bee", target>>, W.ants[a].damage)

\* ThrowerAnt.throw_at, SlowThrower.throw_at, StunThrower.throw_at; target 0 is None
throw_at(W, a, target) ==
  IF target = 0 THEN W
  ELSE IF W.ants[a].type = "Slow" THEN apply_effect(W, "slow", target, 3)
  ELSE IF W.ants[a].type = "Stun" THEN apply_effect(W, "stun", target, 1)
  ELSE reduce_armor(W, <<"bee", target>>, W.ants[a].damage)

\* Ant.double_damage without the damage_doubled test
double_damage_again(W, a) ==
  [W EXCEPT !.ants[a].damage = @ * 2, !.ants[a].damage_doubled = TRUE]

\* Ant.double_damage
double_damage(W, a) ==
  IF W.ants[a].damage_doubled THEN W
  ELSE [W EXCEPT !.ants[a].damage = @ * 2, !.ants[a].damage_doubled = TRUE]

\* QueenAnt._double_place_damage
double_place_damage(W, p) ==
  LET a == W.place_ant[p]
  IN IF a = 0 \/ is_queen(W, <<"ant", a>>) THEN W
     ELSE LET W1 == double_damage(W, a)
              c == contained_ant(W1, a)
          IN IF c = 0 \/ is_queen(W1, <<"ant", c>>) THEN W1
             ELSE double_damage(W1, c)

\* while place is not None: self._double_place_damage(place); place = place.exit
RECURSIVE DoubleExits(_, _)
DoubleExits(W, p) ==
  IF p = NoPlace THEN W ELSE DoubleExits(double_place_damage(W, p), Place_exit(p))

\* the same loop along place.entrance
RECURSIVE DoubleEntrances(_, _)
DoubleEntrances(W, p) ==
  IF p = NoPlace THEN W
  ELSE DoubleEntrances(double_place_damage(W, p), Place_entrance(p))

\* QueenAnt.action
\* QueenAnt.action that leaves colony.queen as it is
QueenAnt_action_no_place(W, a, target) ==
  IF ~W.ants[a].is_true_queen
    THEN reduce_armor(W, <<"ant", a>>, W.ants[a].armor)
    ELSE LET W2 == throw_at(W, a, target)
             W3 == DoubleExits(W2, W2.ants[a].place)
         IN DoubleEntrances(W3, Place_entrance(W3.ants[a].place))

QueenAnt_action(W, a, target) ==
  IF ~W.ants[a].is_true_queen
    THEN reduce_armor(W, <<"ant", a>>, W.ants[a].armor)
    ELSE LET W1 == IF W.queen = NoPlace THEN [W EXCEPT !.queen = W.ants[a].place]
                   ELSE W
             W2 == throw_at(W1, a, target)
             W3 == DoubleExits(W2, W2.ants[a].place)
         IN DoubleEntrances(W3, Place_entrance(W3.ants[a].place))

\* HungryAnt.action with an eat_bee that digests for two turns
HungryAnt_action_two(W, a, target) ==
  IF W.ants[a].digesting > 0 THEN [W EXCEPT !.ants[a].digesting = @ - 1]
  ELSE IF target = 0 THEN W
  ELSE LET W1 == reduce_armor(W, <<"bee", target>>, W.bees[target].armor)
       IN IF W1.err # "none" THEN W1 ELSE [W1 EXCEPT !.ants[a].digesting = 2]

\* HungryAnt.action and eat_bee
HungryAnt_action(W, a, target) ==
  IF W.ants[a].digesting > 0 THEN [W EXCEPT !.ants[a].digesting = @ - 1]
  ELSE IF target = 0 THEN W
  ELSE LET W1 == reduce_armor(W, <<"bee", target>>, W.bees[target].armor)
       IN IF W1.err # "none" THEN W1 ELSE [W1 EXCEPT !.ants[a].digesting = 3]

\* The action of an ant that is no BodyguardAnt, by its class.
own_action(W, a, target) ==
  LET type == W.ants[a].type
  IN IF type = "Harvester" THEN [W EXCEPT !.food = @ + 1]
     ELSE IF type \in ThrowerClasses THEN throw_at(W, a, target)
     ELSE IF type = "Ninja"
       THEN ReduceEach(W, W.place_bees[W.ants[a].place], W.ants[a].damage)
     ELSE IF type = "Hungry" THEN HungryAnt_action(W, a, target)
     ELSE IF type = "Queen" THEN QueenAnt_action(W, a, target)
     ELSE W

\* A BodyguardAnt whose action does not call the action of the ant inside it.
actor_self(W, a) == a

\* The ant whose action ant.action(colony) ends up running: BodyguardAnt.action
\* hands over to the ant it contains (0: nobody acts).
actor(W, a) ==
  IF W.ants[a].type = "Bodyguard" THEN W.ants[a].ant ELSE a

\* What the random choice of the action may return: 0 is None.
targets(W, a) ==
  LET e == actor(W, a)
      type == IF e = 0 THEN "none" ELSE W.ants[e].type
      found == IF type \in ThrowerClasses \/ (type = "Queen" /\ W.ants[e].is_true_queen)
                 THEN nearest_bee(W, e, W.ants[e].place, 0)
               ELSE IF type = "Hungry" /\ W.ants[e].digesting = 0
                 THEN Range(W.place_bees[W.ants[e].place])
               ELSE {}
  IN IF found = {} THEN {0} ELSE found

\* ant.action(colony)
ant_action(W, a, target) ==
  IF actor(W, a) = 0 THEN W ELSE own_action(W, actor(W, a), target)

\* ------------------------------------------------------------- bee actions
\* Bee.blocked
\* blocked that lets a bee pass every ant
blocked_never(W, b) == FALSE

blocked(W, b) ==
  LET a == W.place_ant[W.bees[b].place]
  IN a # 0 /\ AntClass[W.ants[a].type].blocks_path

\* Bee.sting
sting(W, a) == reduce_armor(W, <<"ant", a>>, 1)

\* Bee._action of a bee that stings but never moves
Bee__action_stay(W, b) ==
  IF W.bees[b].place = NoPlace THEN Raise(W, "AttributeError")
  ELSE IF blocked(W, b) THEN sting(W, W.place_ant[W.bees[b].place])
  ELSE W

\* Bee._action
Bee__action(W, b) ==
  IF W.bees[b].place = NoPlace THEN Raise(W, "AttributeError")
  ELSE IF blocked(W, b) THEN sting(W, W.place_ant[W.bees[b].place])
  ELSE IF W.bees[b].place[1] # "Hive" /\ W.bees[b].armor > 0
    THEN move_to(W, b, Place_exit(W.bees[b].place))
    ELSE W

\* duration_effect with a make_slow that calls the action at odd times
RECURSIVE duration_effect_odd(_, _, _)
duration_effect_odd(effects, i, t) ==
  IF i = 0 THEN [effects |-> effects, acts |-> TRUE]
  ELSE IF effects[i].count < effects[i].duration
    THEN LET counted == [effects EXCEPT ![i].count = @ + 1]
         IN IF effects[i].effect = "slow" /\ t % 2 = 1
              THEN duration_effect_odd(counted, i - 1, t)
              ELSE [effects |-> counted, acts |-> FALSE]
    ELSE duration_effect_odd(effects, i - 1, t)

\* The call of the action method that the effects 1..i wrap, as Bee.action
\* builds it: effect i is the outermost.  duration_effect counts a turn while
\* count < duration and then calls the action make_slow or make_stun made of
\* the inner one; acts tells whether Bee._action is reached.
RECURSIVE duration_effect(_, _, _)
duration_effect(effects, i, t) ==
  IF i = 0 THEN [effects |-> effects, acts |-> TRUE]
  ELSE IF effects[i].count < effects[i].duration
    THEN LET counted == [effects EXCEPT ![i].count = @ + 1]
         IN IF effects[i].effect = "slow" /\ t % 2 = 0
              THEN duration_effect(counted, i - 1, t)
              ELSE [effects |-> counted, acts |-> FALSE]
    ELSE duration_effect(effects, i - 1, t)

\* Bee.action that wraps the effects in the reverse order: the first applied
\* is the outermost
Bee_action_first_outermost(W, b, t) ==
  LET n == Len(W.bees[b].effects)
      r == duration_effect([i \in 1..n |-> W.bees[b].effects[n + 1 - i]], n, t)
      W1 == [W EXCEPT !.bees[b].effects = [i \in 1..n |-> r.effects[n + 1 - i]]]
  IN IF r.acts THEN Bee__action(W1, b) ELSE W1

\* Bee.action
Bee_action(W, b, t) ==
  LET r == duration_effect(W.bees[b].effects, Len(W.bees[b].effects), t)
      W1 == [W EXCEPT !.bees[b].effects = r.effects]
  IN IF r.acts THEN Bee__action(W1, b) ELSE W1

\* ---------------------------------------------------------------- the hive
\* AssaultPlan.add_wave and all_bees: the bees of wave i are numbered after
\* those of the waves before it.
RECURSIVE BeesBefore(_, _)
BeesBefore(waves, i) ==
  IF i <= 1 THEN 0 ELSE BeesBefore(waves, i - 1) + waves[i - 1].count

WaveBees(waves, i) ==
  [k \in 1..waves[i].count |-> BeesBefore(waves, i) + k]

\* assault_plan.get(colony.time, [])
plan_get(t) ==
  Flatten([i \in DOMAIN assault_plan.waves |->
             IF assault_plan.waves[i].time = t
               THEN WaveBees(assault_plan.waves, i) ELSE << >>])

\* for bee in wave: bee.move_to(exits[bee]), exits the choices random.choice made
RECURSIVE MoveEach(_, _, _)
MoveEach(W, wave, exits) ==
  IF wave = << >> \/ W.err # "none" THEN W
  ELSE MoveEach(move_to(W, Head(wave), exits[Head(wave)]), Tail(wave), exits)

\* ----------------------------------------------------------- initial state
\* The arguments of mixed_layout (test_layout and dry_layout pass
\* moat_frequency 0).
Layouts ==
  {y \in [tunnels : 1..MaxTunnels, length : 1..MaxLength,
           moat_frequency : {0} \cup 2..MaxLength] :
     y.moat_frequency <= y.length}

\* AssaultPlan(bee_armor).add_wave(time, count)...: waves at increasing times.
Waves ==
  {<< >>}
    \cup {<<[time |-> t, count |-> c]>> : t \in 0..MaxWaveTime, c \in 1..MaxBees}
    \cup {<<[time |-> t1, count |-> c1], [time |-> t2, count |-> c2]>> :
            t1 \in 0..MaxWaveTime, t2 \in 0..MaxWaveTime,
            c1 \in 1..MaxBees, c2 \in 1..MaxBees}

PlanSize(waves) == BeesBefore(waves, Len(waves) + 1)

AssaultPlans ==
  {[bee_armor |-> 3, waves |-> w] :
     w \in {w \in Waves : PlanSize(w) <= MaxBees
                            /\ (Len(w) = 2 => w[1].time < w[2].time)}}

\* The ant_types argument of AntColony: lists of Ant classes.
AntTypeLists ==
  { {"Harvester", "Thrower", "Fire"},
    {"Bodyguard", "Queen", "Remover"},
    {"Wall", "Ninja", "Scuba"} }

\* hog.play is not called
NotPlaying ==
  /\ who = 0
  /\ score0 = 0
  /\ score1 = 0
  /\ points = 0
  /\ play_pc = "idle"

\* AntColony.__init__, Hive.__init__ and AntColony.configure
Init ==
  /\ layout \in Layouts
  /\ assault_plan \in AssaultPlans
  /\ ant_types \in AntTypeLists
  /\ time = 0
  /\ food \in {2, 10}
  /\ queen = NoPlace
  /\ is_true_queen = TRUE
  /\ ants = << >>
  /\ bees = [b \in 1..PlanSize(assault_plan.waves) |->
               [armor |-> assault_plan.bee_armor, place |-> Hive, effects |-> << >>]]
  /\ place_ant = [p \in AllPlaces |-> 0]
  /\ place_bees = [p \in AllPlaces |->
                     IF p = Hive THEN [b \in 1..PlanSize(assault_plan.waves) |-> b]
                     ELSE << >>]
  /\ pc = "while"
  /\ todo = << >>
  /\ calls = 0
  /\ exception = "none"
  /\ log = << >>
  /\ NotPlaying

\* What AntColony.__init__, Hive.__init__ and AntColony.configure make of the
\* arguments: the state of Init for one layout, plan, list of ants and food.
Constructed ==
  /\ time = 0
  /\ queen = NoPlace
  /\ is_true_queen = TRUE
  /\ ants = << >>
  /\ bees = [b \in 1..PlanSize(assault_plan.waves) |->
               [armor |-> assault_plan.bee_armor, place |-> Hive, effects |-> << >>]]
  /\ place_ant = [p \in AllPlaces |-> 0]
  /\ place_bees = [p \in AllPlaces |->
                     IF p = Hive THEN [b \in 1..PlanSize(assault_plan.waves) |-> b]
                     ELSE << >>]
  /\ pc = "while"
  /\ todo = << >>
  /\ calls = 0
  /\ exception = "none"
  /\ log = << >>

\* ----------------------------------------------------------------- actions
\* The objects of W become the state; an exception ends simulate.
Commit(W) ==
  /\ ants' = W.ants
  /\ bees' = W.bees
  /\ place_ant' = W.place_ant
  /\ place_bees' = W.place_bees
  /\ food' = W.food
  /\ queen' = W.queen
  /\ is_true_queen' = W.is_true_queen

objects == <<ants, bees, place_ant, place_bees, food, queen, is_true_queen>>

\* simulate with the test after the loop on len(self.bees) instead of
\* len(self.queen.bees).
While_bees_first ==
  /\ pc = "while"
  /\ IF queen_bees(World) = {} /\ Len(colony_bees(World)) > 0
       THEN /\ time < MaxTime
            /\ pc' = "hive"
            /\ log' = << >>
       ELSE /\ pc' = IF Len(colony_bees(World)) = 0 THEN "won" ELSE "lost"
            /\ log' = log
  /\ UNCHANGED <<hog, config, time, objects, todo, calls, exception>>

\* simulate looping while len(self.queen.bees) == 0 alone.
While_queen_only ==
  /\ pc = "while"
  /\ IF queen_bees(World) = {}
       THEN /\ time < MaxTime
            /\ pc' = "hive"
            /\ log' = << >>
       ELSE /\ pc' = IF queen_bees(World) # {} THEN "lost" ELSE "won"
            /\ log' = log
  /\ UNCHANGED <<hog, config, time, objects, todo, calls, exception>>

\* simulate's while condition and the prints after the loop, followed for
\* the turns before the time last.
Loop(last) ==
  /\ pc = "while"
  /\ IF queen_bees(World) = {} /\ Len(colony_bees(World)) > 0
       THEN /\ time < last
            /\ pc' = "hive"
            /\ log' = << >>
       ELSE /\ pc' = IF queen_bees(World) # {} THEN "lost" ELSE "won"
            /\ log' = log
  /\ UNCHANGED <<hog, config, time, objects, todo, calls, exception>>

While == Loop(MaxTime)

\* self.hive.strategy(self): Hive.strategy
Hive_strategy ==
  /\ pc = "hive"
  /\ \E exits \in [Range(plan_get(time)) -> bee_entrances] :
       \E W \in {MoveEach(World, plan_get(time), exits)} :
          /\ Commit(W)
          /\ pc' = IF W.err # "none" THEN "raised" ELSE "strategy"
  /\ calls' = 0
  /\ log' = Append(log, <<"hive", 0>>)
  /\ UNCHANGED <<hog, config, time, todo, exception>>

\* The strategy is running and may make one more call.
InStrategy == pc = "strategy" /\ calls < MaxCalls

\* A call the strategy makes; an exception reaches the strategy first.
Call(W) ==
  /\ calls' = calls + 1
  /\ exception' = W.err
  /\ Commit(W)
  /\ UNCHANGED <<hog, config, time, pc, todo, log>>

\* The place names a strategy passes: the registered ones and 'AntQueen', which
\* configure does not register.
PlaceNames == Range(places) \cup {AntQueen}

\* The ant class names a strategy passes; 'Unknown' names no class.
TypeNames == ant_types \cup {"Unknown"}

\* colony.deploy_ant(place_name, ant_type_name)
DeployAntCall(place_name, ant_type_name) ==
  InStrategy /\ \E W \in {deploy_ant(World, place_name, ant_type_name)} :
    Len(W.ants) <= MaxAnts /\ Call(W)

DeployAnt ==
  \E place_name \in PlaceNames, ant_type_name \in TypeNames :
    DeployAntCall(place_name, ant_type_name)

\* colony.remove_ant(place_name)
RemoveAntCall(place_name) ==
  InStrategy /\ \E W \in {remove_ant(World, place_name)} : Call(W)

RemoveAnt == \E place_name \in PlaceNames : RemoveAntCall(place_name)

\* The strategy lets the exception of its last call through.
StrategyRaises ==
  /\ pc = "strategy"
  /\ exception # "none"
  /\ pc' = "raised"
  /\ UNCHANGED <<hog, config, time, objects, todo, calls, exception, log>>

\* self.strategy(self) returns; for ant in self.ants
StrategyReturns ==
  /\ pc = "strategy"
  /\ pc' = "ants"
  /\ todo' = colony_ants(World)
  /\ calls' = 0
  /\ exception' = "none"
  /\ log' = Append(log, <<"strategy", 0>>)
  /\ UNCHANGED <<hog, config, time, objects>>

\* if ant.armor > 0: ant.action(self)
AntActs ==
  /\ pc = "ants"
  /\ todo # << >>
  /\ todo' = Tail(todo)
  /\ IF ants[Head(todo)].armor > 0
       THEN /\ \E target \in targets(World, Head(todo)) :
                 \E W \in {ant_action(World, Head(todo), target)} :
                    /\ Commit(W)
                    /\ pc' = IF W.err # "none" THEN "raised" ELSE pc
            /\ log' = Append(log, <<"ant", Head(todo)>>)
       ELSE UNCHANGED <<objects, pc, log>>
  /\ UNCHANGED <<hog, config, time, calls, exception>>

\* for bee in self.bees
AntsDone ==
  /\ pc = "ants"
  /\ todo = << >>
  /\ pc' = "bees"
  /\ todo' = colony_bees(World)
  /\ UNCHANGED <<hog, config, time, objects, calls, exception, log>>

\* if bee.armor > 0: bee.action(self)
BeeActs ==
  /\ pc = "bees"
  /\ todo # << >>
  /\ todo' = Tail(todo)
  /\ IF bees[Head(todo)].armor > 0
       THEN /\ \E W \in {Bee_action(World, Head(todo), time)} :
                  /\ Commit(W)
                  /\ pc' = IF W.err # "none" THEN "raised" ELSE pc
            /\ log' = Append(log, <<"bee", Head(todo)>>)
       ELSE UNCHANGED <<objects, pc, log>>
  /\ UNCHANGED <<hog, config, time, calls, exception>>

\* self.time += 1
BeesDone ==
  /\ pc = "bees"
  /\ todo = << >>
  /\ time' = time + 1
  /\ pc' = "while"
  /\ log' = Append(log, <<"time", 0>>)
  /\ UNCHANGED <<hog, config, objects, todo, calls, exception>>

Next ==
  \/ While
  \/ Hive_strategy
  \/ DeployAnt
  \/ RemoveAnt
  \/ StrategyRaises
  \/ StrategyReturns
  \/ AntActs
  \/ AntsDone
  \/ BeeActs
  \/ BeesDone

Spec == Init /\ [][Next]_vars

TypeOK ==
  /\ pc \in {"while", "hive", "strategy", "ants", "bees", "won", "lost", "raised"}
  /\ time \in 0..MaxTime
  /\ Len(ants) <= MaxAnts

\* ------------------------------------------------- calls on the objects
\* The methods of Place and Insect called directly, as a test or a strategy
\* holding the colony can: place.add_insect(AntClass()), place.remove_insect(
\* insect), insect.reduce_armor(amount).
Insects ==
  {<<"ant", a>> : a \in DOMAIN ants} \cup {<<"bee", b>> : b \in DOMAIN bees}

\* The amounts reduce_armor is called with: a sting, the damage of an ant.
Amounts == {1, 3}

\* place.add_insect(AntClass())
AddInsectCall(p, ant_type_name) ==
  InStrategy /\ \E W1 \in {Construct(World, ant_type_name)} :
    \E W \in {DropUnplaced(World, add_insect(W1, p, <<"ant", Len(W1.ants)>>))} :
      Len(W.ants) <= MaxAnts /\ Call(W)

AddInsect ==
  \E p \in AllPlaces, ant_type_name \in ant_types : AddInsectCall(p, ant_type_name)

\* place.remove_insect(insect)
RemoveInsectCall(p, insect) ==
  InStrategy /\ \E W \in {Place_remove_insect(World, p, insect)} : Call(W)

RemoveInsect ==
  \E p \in AllPlaces, insect \in Insects : RemoveInsectCall(p, insect)

\* insect.reduce_armor(amount), insect in a place
ReduceArmorCall(insect, amount) ==
  /\ InStrategy
  /\ place(World, insect) # NoPlace
  /\ \E W \in {reduce_armor(World, insect, amount)} : Call(W)

ReduceArmor ==
  \E insect \in Insects, amount \in Amounts : ReduceArmorCall(insect, amount)

\* The colony the calls are made on: ten food, and bees that enter at once.
InitApi ==
  /\ Init
  /\ food = 10
  /\ Len(assault_plan.waves) = 1
  /\ assault_plan.waves[1].time = 0
  /\ assault_plan.waves[1].count <= ApiBees

NextApi ==
  \/ Next /\ time' <= ApiMaxTime
  \/ AddInsect
  \/ RemoveInsect
  \/ ReduceArmor

SpecApi == InitApi /\ [][NextApi]_vars

\* ---------------------------------------------------- a game for throwers
\* test_layout with one tunnel long enough for the range of a LongThrower, ten
\* food, and the three throwers that differ in range.
InitRange ==
  /\ layout = [tunnels |-> 1, length |-> RangeLength, moat_frequency |-> 0]
  /\ assault_plan \in AssaultPlans
  /\ assault_plan.waves # << >>
  /\ ant_types = {"Thrower", "Long", "Short"}
  /\ food = 10
  /\ Constructed
  /\ NotPlaying

SpecRange == InitRange /\ [][Next]_vars

\* ------------------------------------------------------- a place on fire
\* A tunnel of one place, which all the bees of the plan enter at once, and a
\* colony that can pay for a FireAnt; reduce_armor is also called directly,
\* with an amount that takes no armor, the sting of a bee, the damage of a
\* FireAnt.
Hits == {0, 1, 3}

ReduceArmorBy ==
  \E insect \in Insects, amount \in Hits : ReduceArmorCall(insect, amount)

InitFire ==
  /\ layout = [tunnels |-> 1, length |-> 1, moat_frequency |-> 0]
  /\ assault_plan \in AssaultPlans
  /\ Len(assault_plan.waves) = 1
  /\ assault_plan.waves[1].time = 0
  /\ ant_types = {"Harvester", "Thrower", "Fire"}
  /\ food = 10
  /\ Constructed
  /\ NotPlaying

NextFire ==
  \/ Next /\ time' <= ApiMaxTime
  \/ ReduceArmorBy

SpecFire == InitFire /\ [][NextFire]_vars

\* ------------------------------------------------ a game with effects
\* test_layout with one tunnel, one bee that enters at time 0 or 1, and a
\* colony that can pay for a SlowThrower and a StunThrower.
WhileFx == Loop(FxMaxTime)

InitFx ==
  /\ layout = [tunnels |-> 1, length |-> FxLength, moat_frequency |-> 0]
  /\ assault_plan \in AssaultPlans
  /\ Len(assault_plan.waves) = 1
  /\ assault_plan.waves[1].time <= 1
  /\ assault_plan.waves[1].count = 1
  /\ ant_types = {"Slow", "Stun"}
  /\ food = 10
  /\ Constructed
  /\ NotPlaying

NextFx ==
  \/ WhileFx
  \/ Hive_strategy
  \/ DeployAnt
  \/ RemoveAnt
  \/ StrategyRaises
  \/ StrategyReturns
  \/ AntActs
  \/ AntsDone
  \/ BeeActs
  \/ BeesDone

SpecFx == InitFx /\ [][NextFx]_vars

\* ------------------------------------------ a game followed without end
\* simulate reads self.time to look up the wave of the turn (Hive.strategy)
\* and for its parity (make_slow), and Bee.action passes by every effect that
\* has counted its turns.  So two colonies that differ only in a time beyond
\* every wave, of the same parity, or in the spent effects of their bees, go
\* through the same turns: the game is followed on one of them, with the time
\* kept at TimeFold or TimeFold + 1 once it is there.
TimeFold == 4      \* an even time that no wave of the plan is later than

Unspent(effects) == SelectSeq(effects, LAMBDA e : e.count < e.duration)

\* self.time += 1
BeesDoneFold ==
  /\ pc = "bees"
  /\ todo = << >>
  /\ time' = IF time > TimeFold THEN time - 1 ELSE time + 1
  /\ bees' = [b \in DOMAIN bees |-> [bees[b] EXCEPT !.effects = Unspent(@)]]
  /\ pc' = "while"
  /\ log' = Append(log, <<"time", 0>>)
  /\ UNCHANGED <<hog, config, ants, place_ant, place_bees, food, queen,
                 is_true_queen, todo, calls, exception>>

WhileFold == Loop(TimeFold + 2)

\* test_layout with one tunnel, one bee that enters at time 0 or 1, and a
\* colony that can pay for one StunThrower and one ThrowerAnt.
InitStun ==
  /\ layout = [tunnels |-> 1, length |-> FxLength, moat_frequency |-> 0]
  /\ assault_plan \in AssaultPlans
  /\ Len(assault_plan.waves) = 1
  /\ assault_plan.waves[1].time <= 1
  /\ assault_plan.waves[1].count = 1
  /\ ant_types = {"Stun", "Thrower"}
  /\ food = 10
  /\ Constructed
  /\ NotPlaying

NextStun ==
  \/ WhileFold
  \/ Hive_strategy
  \/ DeployAnt
  \/ RemoveAnt
  \/ StrategyRaises
  \/ StrategyReturns
  \/ AntActs
  \/ AntsDone
  \/ BeeActs
  \/ BeesDoneFold

\* simulate and the strategy it calls go on running: a step that can be
\* taken is taken.
SpecStun == InitStun /\ [][NextStun]_vars /\ WF_vars(NextStun)

\* ---------------------------------------------------------- hog: play
GOAL_SCORE == 100
HogMaxRolls == 2   \* the most dice a strategy asks for

RECURSIVE SumOf(_)
SumOf(outcomes) ==
  IF outcomes = << >> THEN 0 ELSE Head(outcomes) + SumOf(Tail(outcomes))

\* roll_dice, outcomes being what the num_rolls calls of dice return in order;
\* err is the exception raised, value what is returned without one
roll_dice(num_rolls, outcomes) ==
  IF num_rolls <= 0 THEN [err |-> "AssertionError", value |-> 0]
  ELSE IF \E i \in 1..num_rolls : outcomes[i] = 1 THEN [err |-> "none", value |-> 1]
  ELSE [err |-> "none", value |-> SumOf(outcomes)]

take_bacon(opponent_score) ==
  (IF opponent_score % 10 >= opponent_score \div 10
     THEN opponent_score % 10 ELSE opponent_score \div 10) + 1

take_turn(num_rolls, opponent_score, outcomes) ==
  IF num_rolls < 0 \/ num_rolls > 10 \/ opponent_score >= 100
    THEN [err |-> "AssertionError", value |-> 0]
  ELSE IF num_rolls = 0 THEN [err |-> "none", value |-> take_bacon(opponent_score)]
  ELSE roll_dice(num_rolls, outcomes)

\* select_dice: the sides of the dice selected; a die of n sides returns one
\* of 1..n
select_dice(score, opponent_score) ==
  IF (score + opponent_score) % 7 = 0 THEN 4 ELSE 6

other(player) == 1 - player

\* the loop test of play with the test negated: play goes on while it is min
play_while_min(s0, s1, goal) ==
  (IF s0 <= s1 THEN s0 ELSE s1) < goal

\* the loop test of play
play_while(s0, s1, goal) ==
  (IF s0 >= s1 THEN s0 ELSE s1) < goal

\* the swine swap at the end of the loop body
swine_swap(s0, s1) ==
  IF s0 = 2 * s1 \/ s1 = 2 * s0 THEN <<s1, s0>> ELSE <<s0, s1>>

\* one pass through the body of the loop of play, the strategy of the player
\* returning num_rolls
PlayTurn ==
  /\ play_pc = "while"
  /\ play_while(score0, score1, GOAL_SCORE)
  /\ \E num_rolls \in 0..HogMaxRolls :
       LET score == IF who = 0 THEN score0 ELSE score1
           opponent_score == IF who = 0 THEN score1 ELSE score0
       IN \E outcomes \in [1..num_rolls -> 1..select_dice(score, opponent_score)] :
            LET r == take_turn(num_rolls, opponent_score, outcomes)
            IN IF r.err # "none"
                 THEN /\ play_pc' = "raised"
                      /\ UNCHANGED <<who, score0, score1, points>>
                 ELSE /\ points' = r.value
                      /\ who' = other(who)
                      /\ LET scores == IF who = 0
                                         THEN swine_swap(score0 + r.value, score1)
                                         ELSE swine_swap(score0, score1 + r.value)
                         IN score0' = scores[1] /\ score1' = scores[2]
                      /\ play_pc' = "while"
  /\ UNCHANGED <<config, time, objects, pc, todo, calls, exception, log>>

\* return score0, score1
PlayReturn ==
  /\ play_pc = "while"
  /\ ~play_while(score0, score1, GOAL_SCORE)
  /\ play_pc' = "returned"
  /\ UNCHANGED <<who, score0, score1, points>>
  /\ UNCHANGED <<config, time, objects, pc, todo, calls, exception, log>>

\* play(strategy0, strategy1) is called, no colony game running
InitHog ==
  /\ layout = [tunnels |-> 1, length |-> 1, moat_frequency |-> 0]
  /\ assault_plan = [bee_armor |-> 3, waves |-> << >>]
  /\ ant_types = {}
  /\ food = 2
  /\ Constructed
  /\ who = 0
  /\ score0 = 0
  /\ score1 = 0
  /\ points = 0
  /\ play_pc = "while"

NextHog ==
  \/ PlayTurn
  \/ PlayReturn

SpecHog == InitHog /\ [][NextHog]_vars

\* --------------------------------------------- a game with a HungryAnt
\* One place between the Hive and the queen, a bee at time 0 and a bee at a
\* later time, and a colony that can pay for a HungryAnt and a BodyguardAnt.
InitHungry ==
  /\ layout = [tunnels |-> 1, length |-> 1, moat_frequency |-> 0]
  /\ assault_plan \in
       {[bee_armor |-> 3,
         waves |-> <<[time |-> 0, count |-> 1], [time |-> t, count |-> 1]>>] :
          t \in 1..DigestWave}
  /\ ant_types = {"Hungry", "Bodyguard"}
  /\ food = 10
  /\ Constructed
  /\ NotPlaying

NextHungry ==
  \/ WhileFx
  \/ Hive_strategy
  \/ DeployAnt
  \/ RemoveAnt
  \/ StrategyRaises
  \/ StrategyReturns
  \/ AntActs
  \/ AntsDone
  \/ BeeActs
  \/ BeesDone

SpecHungry == InitHungry /\ [][NextHungry]_vars

\* ---------------------------------------------- a game with a QueenAnt
\* Two tunnels of two places, one bee, and a colony that can pay for a
\* QueenAnt, a ThrowerAnt and a BodyguardAnt, or for two QueenAnts and a
\* BodyguardAnt.
WhileQueen == Loop(QueenTime)

DeployAntQueen ==
  \E place_name \in PlaceNames, ant_type_name \in ant_types :
    InStrategy /\ \E W \in {deploy_ant(World, place_name, ant_type_name)} :
      Len(W.ants) <= QueenAnts /\ Call(W)

InitQueen ==
  /\ layout = [tunnels |-> 2, length |-> 2, moat_frequency |-> 0]
  /\ assault_plan \in AssaultPlans
  /\ Len(assault_plan.waves) = 1
  /\ assault_plan.waves[1].count = 1
  /\ ant_types = {"Queen", "Thrower", "Bodyguard"}
  /\ food = 16
  /\ Constructed
  /\ NotPlaying

NextQueen ==
  \/ WhileQueen
  \/ Hive_strategy
  \/ DeployAntQueen
  \/ RemoveAnt
  \/ StrategyRaises
  \/ StrategyReturns
  \/ AntActs
  \/ AntsDone
  \/ BeeActs
  \/ BeesDone

SpecQueen == InitQueen /\ [][NextQueen]_vars

\* ================================================================== claims
IsContainer(a) == AntClass[ants[a].type].container

\* The ants a place holds: the one in its slot and the ones nested below it.
Nested(a) == IF a = 0 THEN 0 ELSE ants[a].ant

\* The insect is where it says it is: an ant in the slot of its place or nested
\* in the ant of that slot, a bee in the list of its place.
Present(insect) ==
  IF insect[1] = "ant"
    THEN /\ ants[insect[2]].place # NoPlace
         /\ \/ place_ant[ants[insect[2]].place] = insect[2]
            \/ Nested(place_ant[ants[insect[2]].place]) = insect[2]
    ELSE /\ bees[insect[2]].place # NoPlace
         /\ \E i \in DOMAIN place_bees[bees[insect[2]].place] :
              place_bees[bees[insect[2]].place][i] = insect[2]

\* The insect is in no place, and its place is None.
Absent(insect) ==
  IF insect[1] = "ant"
    THEN /\ ants[insect[2]].place = NoPlace
         /\ \A p \in AllPlaces :
              place_ant[p] # insect[2] /\ Nested(place_ant[p]) # insect[2]
    ELSE /\ bees[insect[2]].place = NoPlace
         /\ \A p \in AllPlaces : \A i \in DOMAIN place_bees[p] :
              place_bees[p][i] # insect[2]

ArmorOf(insect) ==
  IF insect[1] = "ant" THEN ants[insect[2]].armor ELSE bees[insect[2]].armor

\* C1: in every state, whatever calls of add_insect, remove_insect, deploy_ant
\* and remove_ant and whatever turns came before, failed calls included, the
\* slot of every place is empty, or holds one ant that is no container and
\* nests nothing, or holds one container that nests nothing or nests one ant
\* that is no container and nests nothing itself.
C1_SlotShape ==
  \A p \in AllPlaces :
    LET a == place_ant[p]
    IN \/ a = 0
       \/ ~IsContainer(a) /\ Nested(a) = 0
       \/ /\ IsContainer(a)
          /\ \/ Nested(a) = 0
             \/ ~IsContainer(Nested(a)) /\ Nested(Nested(a)) = 0

\* A full container is in a slot and the last call, one more ant for a place,
\* failed its assertion.
C1_Witness ==
  /\ exception = "AssertionError"
  /\ \E p \in AllPlaces :
       /\ place_ant[p] # 0
       /\ IsContainer(place_ant[p])
       /\ Nested(place_ant[p]) # 0

IsTrueQueen(insect) == insect[1] = "ant" /\ ants[insect[2]].is_true_queen

IsNested(insect) ==
  /\ insect[1] = "ant"
  /\ ants[insect[2]].place # NoPlace
  /\ place_ant[ants[insect[2]].place] # insect[2]

BeeAtQueen ==
  \E b \in DOMAIN bees :
    bees[b].place = AntQueen \/ (queen # NoPlace /\ bees[b].place = queen)

\* A bee is in a registered place, the Hive included.
BeeRemains == \E b \in DOMAIN bees : bees[b].place \in Range(places)

\* C3: the test at the top of the loop of simulate ends the game as lost when
\* a bee is in the queen's place, as won when no bee is there and no bee is in
\* a registered place, the Hive included, and else starts the next turn; with
\* a bee in the queen's place and none in a registered place it is lost.  A
\* game that ended stays ended.
C3_Termination ==
  /\ [](pc = "lost" => BeeAtQueen)
  /\ [](pc = "won" => ~BeeAtQueen /\ ~BeeRemains)
  /\ [][pc = "while" /\ pc' # pc =>
          pc' = IF BeeAtQueen THEN "lost"
                ELSE IF ~BeeRemains THEN "won" ELSE "hive"]_vars
  /\ [][(pc \in {"won", "lost"}) => UNCHANGED vars]_vars

\* The game is lost with a bee in the queen's place and no bee left in a
\* registered place.
C3_Witness == pc = "lost" /\ BeeAtQueen /\ ~BeeRemains

\* The insects of one kind that acted in this turn, in the order they acted.
Acted(kind) ==
  LET s == SelectSeq(log, LAMBDA e : e[1] = kind)
  IN [i \in DOMAIN s |-> s[i][2]]

\* The phase of a step of the turn: 1 the hive, 2 the strategy, 3 an ant,
\* 4 a bee, 5 the time.
Phase(e) ==
  CASE e[1] = "hive" -> 1
    [] e[1] = "strategy" -> 2
    [] e[1] = "ant" -> 3
    [] e[1] = "bee" -> 4
    [] e[1] = "time" -> 5

\* The position of a place in colony.places, and of a bee in the list of its
\* place.
PlaceIndex(p) == CHOOSE i \in DOMAIN places : places[i] = p

BeeIndex(b) ==
  CHOOSE k \in DOMAIN place_bees[bees[b].place] :
    place_bees[bees[b].place][k] = b

AntsInMapOrder(s) ==
  \A i, j \in DOMAIN s :
    i < j => PlaceIndex(ants[s[i]].place) < PlaceIndex(ants[s[j]].place)

BeesInMapOrder(s) ==
  \A i, j \in DOMAIN s :
    i < j =>
      \/ PlaceIndex(bees[s[i]].place) < PlaceIndex(bees[s[j]].place)
      \/ /\ bees[s[i]].place = bees[s[j]].place
         /\ BeeIndex(s[i]) < BeeIndex(s[j])

\* The ants in the slots of the registered places, and the bees in their lists.
SlotAnts == {place_ant[p] : p \in Range(places)} \ {0}

PlacedBees == {b \in DOMAIN bees : bees[b].place \in Range(places)}

\* The steps of the turn so far are in the order of the phases, each once.
TurnInOrder ==
  /\ \A i, j \in DOMAIN log :
       i < j => Phase(log[i]) <= Phase(log[j]) /\ log[i] # log[j]
  /\ pc = "hive" => log = << >>
  /\ pc = "strategy" => log = << <<"hive", 0>> >>
  /\ pc \in {"ants", "bees"} =>
       /\ Len(log) >= 2 /\ log[1] = <<"hive", 0>> /\ log[2] = <<"strategy", 0>>
       /\ \A i \in DOMAIN log : Phase(log[i]) < (IF pc = "ants" THEN 4 ELSE 5)
  /\ pc \in {"while", "won", "lost"} /\ log # << >> =>
       /\ Len(log) >= 3 /\ log[1] = <<"hive", 0>> /\ log[2] = <<"strategy", 0>>
       /\ log[Len(log)] = <<"time", 0>>

\* C4: a turn of simulate moves the bees the plan has for this time from the
\* Hive to an entrance, then runs the strategy once, then lets every ant in a
\* slot with armor > 0 act once in the order of colony.places, then every bee
\* with armor > 0 once in the order of colony.places, then adds 1 to the
\* time; no bee acts before the ants are done, and the test of the loop is
\* only made again after the time has moved.
C4_TurnPhases ==
  /\ []TurnInOrder
  /\ [][time' # time =>
          /\ time' = time + 1
          /\ pc = "bees" /\ todo = << >> /\ pc' = "while"
          /\ \A b \in PlacedBees : bees[b].armor > 0 => b \in Range(Acted("bee"))
          /\ UNCHANGED objects]_vars
  /\ [][pc = "hive" /\ pc' = "strategy" =>
          /\ \A b \in Range(plan_get(time)) : bees'[b].place \in bee_entrances
          /\ \A b \in DOMAIN bees : b \notin Range(plan_get(time)) => bees'[b] = bees[b]
          /\ UNCHANGED <<ants, place_ant, food>>]_vars
  /\ [][pc = "strategy" /\ pc' = "ants" =>
          /\ Range(todo') = SlotAnts /\ AntsInMapOrder(todo')
          /\ UNCHANGED objects]_vars
  /\ [][pc = "ants" /\ pc' = "bees" =>
          /\ todo = << >>
          /\ \A a \in SlotAnts : ants[a].armor > 0 => a \in Range(Acted("ant"))
          /\ Range(todo') = PlacedBees /\ BeesInMapOrder(todo')
          /\ UNCHANGED objects]_vars
  /\ [][(pc \in {"ants", "bees"}) /\ todo' # todo /\ pc' # "bees" =>
          /\ todo # << >> /\ todo' = Tail(todo)
          /\ IF (IF pc = "ants" THEN ants[Head(todo)].armor
                               ELSE bees[Head(todo)].armor) > 0
               THEN log' = Append(log, <<IF pc = "ants" THEN "ant" ELSE "bee",
                                         Head(todo)>>)
               ELSE UNCHANGED <<log, objects>>]_vars
  /\ [][pc = "bees" /\ pc' # "bees" /\ pc' # "raised" => time' = time + 1]_vars

\* A turn is complete in which two ants and a bee have acted.
C4_Witness ==
  /\ pc = "while"
  /\ log # << >>
  /\ Len(Acted("ant")) >= 2
  /\ Len(Acted("bee")) >= 1

\* The time of the first wave of the plan.
FirstWave == assault_plan.waves[1].time

\* C5: while no ant has been deployed, a game whose first bees leave the Hive
\* at time t for a tunnel of length L is not won, is lost only with the time
\* at t + L, and is not played beyond that time; so with one tunnel of length
\* 2 and one bee of armor 3 at time 2 the game is lost with the time at 4.
C5_LossTiming ==
  ants = << >> /\ assault_plan.waves # << >> =>
    /\ pc # "won"
    /\ time <= FirstWave + layout.length
    /\ pc = "lost" => time = FirstWave + layout.length
    /\ time = FirstWave + layout.length => pc \in {"while", "lost"}

\* One tunnel of length 2, one bee of armor 3 at time 2, no ant: lost at 4.
C5_Witness ==
  /\ pc = "lost"
  /\ ants = << >>
  /\ time = 4
  /\ layout.tunnels = 1 /\ layout.length = 2
  /\ assault_plan.waves = <<[time |-> 2, count |-> 1]>>
  /\ assault_plan.bee_armor = 3
  /\ bees[1].place = AntQueen

\* C6: with a plan of no waves the first test of the loop of simulate, at
\* time 0, ends the game as won: no phase of a turn runs, the strategy makes
\* no call, and the food, like every object, stays as constructed.
C6_EmptyPlan ==
  /\ [](assault_plan.waves = << >> =>
          /\ pc \in {"while", "won"}
          /\ time = 0 /\ log = << >> /\ calls = 0 /\ ants = << >>
          /\ food \in {2, 10})
  /\ [][assault_plan.waves = << >> =>
          /\ pc = "while" /\ pc' = "won"
          /\ UNCHANGED <<time, objects, log, calls>>]_vars

\* The game of a plan of no waves is won at time 0.
C6_Witness ==
  /\ assault_plan.waves = << >>
  /\ pc = "won"
  /\ time = 0
  /\ food = 10

\* The ant constructed last is of this type and in this place, in its slot or
\* nested in the ant of its slot.
NewestIn(p, ant_type_name) ==
  /\ ants # << >>
  /\ p \in DOMAIN place_ant
  /\ ants[Len(ants)].type = ant_type_name
  /\ ants[Len(ants)].place = p
  /\ place_ant[p] = Len(ants) \/ Nested(place_ant[p]) = Len(ants)

\* The ant constructed last is of this type and in no place, its armor gone.
NewestGone(ant_type_name) ==
  /\ ants # << >>
  /\ ants[Len(ants)].type = ant_type_name
  /\ ants[Len(ants)].armor <= 0
  /\ Absent(<<"ant", Len(ants)>>)

Cost(ant_type_name) == AntClass[ant_type_name].food_cost

\* C7 as claimed: deploy_ant for a type that costs more than the food changes
\* nothing; a deploy_ant that returns otherwise leaves one new ant of the type
\* in the named place and the food less by its cost, whatever the place.
C7_AsClaimed ==
  [][\A place_name \in PlaceNames, ant_type_name \in ant_types :
       DeployAntCall(place_name, ant_type_name) =>
         IF food < Cost(ant_type_name)
           THEN exception' = "none" /\ UNCHANGED objects
           ELSE exception' = "none" =>
                  /\ Len(ants') = Len(ants) + 1
                  /\ NewestIn(place_name, ant_type_name)'
                  /\ food' = food - Cost(ant_type_name)]_vars

\* C7 as amended: deploy_ant for a type that costs more than the food changes
\* nothing: not the food, no slot, no list of bees, not the true-queen
\* attribute, and no ant is constructed.  A deploy_ant that returns otherwise
\* has constructed one ant of the type, has taken its cost from the food and
\* has changed the slot of no other place; the new ant is in the named place,
\* in its slot or nested, unless the place is Water and the type is not
\* watersafe: then the new ant has lost its armor and is in no place.
C7_DeployAnt ==
  [][\A place_name \in PlaceNames, ant_type_name \in ant_types :
       DeployAntCall(place_name, ant_type_name) =>
         IF food < Cost(ant_type_name)
           THEN exception' = "none" /\ UNCHANGED objects
           ELSE exception' = "none" =>
                  /\ Len(ants') = Len(ants) + 1
                  /\ food' = food - Cost(ant_type_name)
                  /\ \A p \in AllPlaces \ {place_name} : place_ant'[p] = place_ant[p]
                  /\ IF place_name[1] = "water"
                          /\ ~AntClass[ant_type_name].watersafe
                       THEN NewestGone(ant_type_name)'
                       ELSE NewestIn(place_name, ant_type_name)']_vars

\* deploy_ant has just put an ant in a place for its cost, and another call was
\* refused for want of food.
C7_Witness ==
  /\ pc = "strategy"
  /\ calls = 2
  /\ exception = "none"
  /\ Len(ants) = 1
  /\ NewestIn(ants[1].place, ants[1].type)
  /\ time = 0
  /\ \A ant_type_name \in ant_types : food < Cost(ant_type_name)

\* C8: the food of the colony is never negative, whatever ants were deployed
\* and removed and whatever turns were played.
C8_FoodNotNegative == food >= 0

\* All the food is spent a second time: the food a harvester has added paid
\* for one more harvester.
C8_Witness ==
  /\ food = 0
  /\ time > 0
  /\ Len(ants) = 2
  /\ \A a \in DOMAIN ants : ants[a].type = "Harvester" /\ Present(<<"ant", a>>)

\* The slot of the place holds an ant that a new ant of this type can neither
\* be nested in nor contain: both are no containers, or both are containers,
\* or the ant of the slot is a container that nests an ant already.
NoValidNesting(p, ant_type_name) ==
  /\ place_ant[p] # 0
  /\ \/ ~IsContainer(place_ant[p]) /\ ~AntClass[ant_type_name].container
     \/ IsContainer(place_ant[p]) /\ AntClass[ant_type_name].container
     \/ IsContainer(place_ant[p]) /\ Nested(place_ant[p]) # 0

\* C9: add_insect of a new ant to a place where no valid nesting exists raises
\* an AssertionError and leaves every slot, every nested ant and every place
\* reference as they were, the new ant in no place; deploy_ant of an affordable
\* type to such a place raises the same error, changes as little and leaves
\* the food as it was.
C9_NoValidNesting ==
  /\ [][\A p \in AllPlaces, ant_type_name \in ant_types :
          NoValidNesting(p, ant_type_name) /\ AddInsectCall(p, ant_type_name) =>
            /\ exception' = "AssertionError"
            /\ UNCHANGED <<place_ant, ants, bees, place_bees>>]_vars
  /\ [][\A p \in Range(places), ant_type_name \in ant_types :
          /\ food >= Cost(ant_type_name)
          /\ NoValidNesting(p, ant_type_name)
          /\ DeployAntCall(p, ant_type_name)
          => /\ exception' = "AssertionError"
             /\ UNCHANGED <<place_ant, ants, bees, place_bees, food>>]_vars

\* A queen was constructed for a place whose slot could not take her: the
\* call failed its assertion and she is in no place.
C9_Witness ==
  /\ exception = "AssertionError"
  /\ ~is_true_queen
  /\ \A a \in DOMAIN ants : ants[a].type # "Queen"
  /\ \E p \in Range(places) : place_ant[p] # 0 /\ ~IsContainer(place_ant[p])
  /\ food = 10

\* C10: remove_ant for a registered place whose slot is empty raises nothing
\* and changes nothing, and for a registered place it never raises, so it can
\* be called again and again; remove_ant for a name that is not registered
\* raises a KeyError and changes nothing.
C10_RemoveAnt ==
  [][\A place_name \in PlaceNames :
       RemoveAntCall(place_name) =>
         IF place_name \in Range(places)
           THEN /\ exception' = "none"
                /\ place_ant[place_name] = 0 => UNCHANGED objects
           ELSE exception' = "KeyError" /\ UNCHANGED objects]_vars

\* An ant deployed in an earlier turn has been removed, its armor intact, and
\* the call after that had nothing left to remove or to pay with.
C10_Witness ==
  /\ pc = "strategy"
  /\ time > 0
  /\ calls = 2
  /\ exception = "none"
  /\ Len(ants) = 1
  /\ ants[1].armor > 0
  /\ Absent(<<"ant", 1>>)
  /\ \A p \in AllPlaces : place_ant[p] = 0
  /\ \A ant_type_name \in ant_types : food < Cost(ant_type_name)

\* The number of entrances to follow from place p to place q of the same
\* tunnel; -1 when q is not that way, as the Hive is for the loop of
\* nearest_bee.
Hops(p, q) ==
  IF /\ p[1] \in {"tunnel", "water"} /\ q[1] \in {"tunnel", "water"}
     /\ p[2] = q[2] /\ q[3] >= p[3]
    THEN q[3] - p[3]
    ELSE -1

\* The bees in the range of thrower a.
InRange(a) ==
  {b \in DOMAIN bees :
     LET d == Hops(ants[a].place, bees[b].place)
     IN /\ d >= 0
        /\ AntClass[ants[a].type].min_range <= d
        /\ d <= AntClass[ants[a].type].max_range}

\* C11: the action of a ThrowerAnt, LongThrower or ShortThrower in place p
\* changes the armor of one bee at most, by the damage of the ant; that bee is
\* d entrances from p with min_range <= d <= max_range and not in the Hive,
\* and no bee in range is nearer; with one bee in range that bee is hit, with
\* none no armor changes.
C11_ThrowerRange ==
  [][/\ pc = "ants" /\ todo # << >> /\ todo' # todo
     /\ ants[Head(todo)].armor > 0
     /\ ants[Head(todo)].type \in {"Thrower", "Long", "Short"}
     => LET a == Head(todo)
            hit == {b \in DOMAIN bees : bees'[b].armor # bees[b].armor}
        IN /\ Cardinality(hit) <= 1
           /\ \A b \in hit :
                /\ b \in InRange(a)
                /\ bees[b].place # Hive
                /\ bees'[b].armor = bees[b].armor - AntClass[ants[a].type].damage
                /\ \A c \in InRange(a) :
                     Hops(ants[a].place, bees[b].place)
                       <= Hops(ants[a].place, bees[c].place)
           /\ \A b \in DOMAIN bees : InRange(a) = {b} => hit = {b}
           /\ InRange(a) = {} => hit = {}
           /\ InRange(a) # {} => hit # {}]_vars

\* A LongThrower has hit a bee four places or more away and left the bee that
\* is nearer as it was.
C11_Witness ==
  /\ pc = "ants"
  /\ todo = << >>
  /\ \E a \in DOMAIN ants, b \in DOMAIN bees, c \in DOMAIN bees :
       /\ ants[a].type = "Long"
       /\ Present(<<"ant", a>>)
       /\ Hops(ants[a].place, bees[b].place) >= 4
       /\ bees[b].armor = assault_plan.bee_armor - 1
       /\ Hops(ants[a].place, bees[c].place) \in 0..3
       /\ bees[c].armor = assault_plan.bee_armor

\* The bees in the place of ant a.
BeesWith(a) == Range(place_bees[ants[a].place])

\* The FireAnt a has burnt: every bee that was in its place has lost the
\* damage of the ant once, no other bee has lost armor, and the ant is
\* out of its slot, which Insect.reduce_armor did after the bees were hit.
Burnt(a) ==
  /\ \A b \in DOMAIN bees :
       bees'[b].armor = IF b \in BeesWith(a) THEN bees[b].armor - ants[a].damage
                        ELSE bees[b].armor
  /\ Absent(<<"ant", a>>)'

\* C12: reduce_armor(amount) on a FireAnt in the slot of a place with N bees,
\* with amount >= its armor (of 1: any amount >= 1, the sting of a bee too),
\* takes the damage of the ant from the armor of each of the N bees once, and
\* does so before the ant leaves its slot, so that nothing is raised; with
\* amount < its armor no bee loses armor and the ant stays.
C12_FireAnt ==
  /\ [][\A a \in DOMAIN ants, amount \in Hits :
          /\ ants[a].type = "Fire"
          /\ ants[a].place # NoPlace
          /\ ReduceArmorCall(<<"ant", a>>, amount)
          => /\ exception' = "none"
             /\ IF amount >= ants[a].armor
                  THEN Burnt(a)
                  ELSE /\ bees' = bees /\ place_bees' = place_bees
                       /\ Present(<<"ant", a>>)']_vars
  /\ [][\A a \in DOMAIN ants :
          /\ pc = "bees" /\ todo # << >> /\ todo' # todo
          /\ bees[Head(todo)].armor > 0
          /\ place_ant[bees[Head(todo)].place] = a
          /\ ants[a].type = "Fire"
          => pc' = "bees" /\ Burnt(a)]_vars

\* A FireAnt has burnt two bees in its place: both have lost its damage and
\* are gone with it.
C12_Witness ==
  /\ \E a \in DOMAIN ants :
       ants[a].type = "Fire" /\ ants[a].armor <= 0 /\ Absent(<<"ant", a>>)
  /\ Len(bees) = 2
  /\ \A b \in DOMAIN bees :
       bees[b].armor = assault_plan.bee_armor - 3 /\ Absent(<<"bee", b>>)


\* ------------------------------------------------------------------- C13
\* the step in which bee b is acted on: Bee.action is called on it
BeeTurn(b) ==
  /\ pc = "bees"
  /\ todo # << >>
  /\ Head(todo) = b
  /\ bees[b].armor > 0

\* Bee._action ran in this step: the bee moved, or it stung the ant in its way
Performed(b) ==
  \/ bees'[b].place # bees[b].place
  \/ ants' # ants

\* bee b carries a stun and, applied after it, a slow, and nothing else
StunThenSlow(b) ==
  /\ Len(bees[b].effects) = 2
  /\ bees[b].effects[1].effect = "stun"
  /\ bees[b].effects[2].effect = "slow"

\* C13 as claimed: a bee with a stun of 1 and then a slow of 3 loses its
\* first turn to the stun, which spends the stun and none of the slow, and
\* the slow then counts three turns of its own.
C13_AsClaimed ==
  [][\A b \in DOMAIN bees :
       (BeeTurn(b) /\ StunThenSlow(b)) =>
         LET e == bees[b].effects
             e2 == bees'[b].effects
         IN IF e[1].count = 0
              THEN /\ ~Performed(b)
                   /\ e2[1].count = 1
                   /\ e2[2].count = e[2].count
              ELSE /\ e2[1].count = 1
                   /\ e2[2].count = IF e[2].count < 3 THEN e[2].count + 1 ELSE 3
                   /\ e[2].count = 3 => Performed(b)]_vars

\* C13: a bee with a stun of 1 and then a slow of 3 spends one turn of the
\* slow in each of its next three turns, the stunned one included; the stun
\* is spent in the first turn that falls on an even time or has the slow
\* spent; the bee takes its own action exactly in the turns that start with
\* the stun spent and either the slow spent or the time even.  Thrown in one
\* turn at an even time t the bee first acts at t + 2, at an odd time t at
\* t + 3, and from then on in every turn.
C13_StunThenSlow ==
  [][\A b \in DOMAIN bees :
       (BeeTurn(b) /\ StunThenSlow(b)) =>
         LET e == bees[b].effects
             e2 == bees'[b].effects
         IN /\ e[1].duration = 1 /\ e[2].duration = 3
            /\ e2[2].count = IF e[2].count < 3 THEN e[2].count + 1 ELSE 3
            /\ e2[1].count = IF e[2].count = 3 \/ time % 2 = 0 THEN 1 ELSE e[1].count
            /\ Performed(b) <=> (e[1].count = 1 /\ (e[2].count = 3 \/ time % 2 = 0))
            /\ (e[1].count = 0 /\ e[2].count = 0) => ~Performed(b)
            /\ (e[1].count = 0 /\ e[2].count > 0) => (e[2].count = 1 /\ time % 2 = 0)
            /\ (e[2].count = 2 /\ time % 2 = 1) => ~Performed(b)]_vars

\* a stun and a slow were thrown at an odd time: both are spent and the bee,
\* with nothing in its way the whole time, is still where it entered.
C13_Witness ==
  /\ bees # << >>
  /\ StunThenSlow(1)
  /\ bees[1].effects[1].count = 1
  /\ bees[1].effects[2].count = 3
  /\ bees[1].armor > 0
  /\ bees[1].place = <<"tunnel", 0, FxLength - 1>>
  /\ \A a \in DOMAIN ants : ants[a].armor > 0 /\ ants[a].place # bees[1].place


\* ------------------------------------------------------------------- C14
\* what the bee's own action leaves of a bee that does not sting
Advances(b) ==
  LET p == bees[b].place
  IN IF p # Hive
       THEN /\ bees' = [bees EXCEPT ![b].place = Place_exit(p)]
            /\ place_bees' = [place_bees EXCEPT
                 ![p] = SelectSeq(@, LAMBDA x : x # b),
                 ![Place_exit(p)] = Append(@, b)]
            /\ ants' = ants
       ELSE UNCHANGED <<bees, place_bees, ants>>

\* the ant in the slot of the bee's place loses one armor
Stings(b) ==
  LET a == place_ant[bees[b].place]
  IN /\ ants'[a].armor = ants[a].armor - 1
     /\ \A x \in DOMAIN ants : x # a => ants'[x].armor = ants[x].armor

\* the slot of the bee's place holds an ant whose blocks_path is true
InTheWay(b) ==
  /\ place_ant[bees[b].place] # 0
  /\ AntClass[ants[place_ant[bees[b].place]].type].blocks_path

\* C14 as claimed: a bee whose place's slot holds an ant that blocks the path
\* takes one armor from it and stays in its place; any other bee with armor
\* left and not in the Hive moves to the exit of its place.
C14_AsClaimed ==
  [][\A b \in DOMAIN bees :
       BeeTurn(b) =>
         IF InTheWay(b)
           THEN /\ Stings(b)
                /\ bees'[b].place = bees[b].place
                /\ place_bees'[bees[b].place] = place_bees[bees[b].place]
           ELSE Advances(b)]_vars

\* C14: a bee whose place's slot holds an ant that blocks the path takes one
\* armor from it and does not move to the exit; it stays in its place unless
\* the sting killed a FireAnt whose damage is at least the bee's armor, and
\* then it is in no place at all.  Any other bee with armor left and not in
\* the Hive moves to the exit of its place, and only it moves.
C14_BeeAction ==
  [][\A b \in DOMAIN bees :
       BeeTurn(b) =>
         IF InTheWay(b)
           THEN LET a == place_ant[bees[b].place]
                    burnt == /\ ants[a].type = "Fire"
                             /\ ants[a].armor <= 1
                             /\ bees[b].armor <= ants[a].damage
                IN /\ Stings(b)
                   /\ \A p \in AllPlaces \ {bees[b].place} :
                        place_bees'[p] = place_bees[p]
                   /\ IF burnt
                        THEN Absent(<<"bee", b>>)'
                        ELSE /\ bees'[b].place = bees[b].place
                             /\ place_bees'[bees[b].place] = place_bees[bees[b].place]
           ELSE Advances(b)]_vars

\* a bee has stung a FireAnt to death and is gone with it, in the turn before
\* which it stood in the FireAnt's place.
C14_Witness ==
  /\ pc = "bees"
  /\ \E b \in DOMAIN bees, a \in DOMAIN ants :
       /\ <<"bee", b>> \in Range(log)
       /\ Absent(<<"bee", b>>)
       /\ bees[b].armor = 0
       /\ ants[a].type = "Fire"
       /\ ants[a].armor = 0
       /\ Absent(<<"ant", a>>)


\* ------------------------------------------------------------------- C15
\* the bees in the place of the true queen, once she is placed
BeesWithQueen ==
  UNION {Range(place_bees[ants[a].place]) :
           a \in {x \in DOMAIN ants : ants[x].is_true_queen /\ Present(<<"ant", x>>)}}

\* C15: whenever the loop test of simulate is made with the true queen placed
\* and a bee in her place or in the colony's queen place, the game is lost.
C15_QueenPlace ==
  [][(pc = "while" /\ BeesWithQueen \cup Range(place_bees[AntQueen]) # {})
       => pc' = "lost"]_vars

\* the game is lost with no bee at the end of the tunnels: the bee is in the
\* tunnel place of the true queen.
C15_Witness ==
  /\ pc = "lost"
  /\ place_bees[AntQueen] = << >>
  /\ \E a \in DOMAIN ants :
       /\ ants[a].is_true_queen
       /\ ants[a].place \in Range(places) \ {Hive}
       /\ place_bees[ants[a].place] # << >>


\* ------------------------------------------------------------------- C16
\* C16: play starts with player 0; every pass of its loop is made with both
\* scores below the goal, passes the turn to the other player, adds the
\* points of the turn to the score of the player whose turn it was and to no
\* other, and then exchanges the scores exactly when one is twice the other;
\* the assertions of take_turn never fail; play returns only a pair whose
\* larger score has reached the goal.
C16_Play ==
  /\ who = 0
  /\ [](play_pc # "raised")
  /\ [](play_pc = "returned" => (score0 >= GOAL_SCORE \/ score1 >= GOAL_SCORE))
  /\ [][play_pc = "while" =>
          IF score0 < GOAL_SCORE /\ score1 < GOAL_SCORE
            THEN /\ play_pc' = "while"
                 /\ who' = 1 - who
                 /\ points' >= 1
                 /\ LET s0 == IF who = 0 THEN score0 + points' ELSE score0
                        s1 == IF who = 1 THEN score1 + points' ELSE score1
                    IN IF s0 = 2 * s1 \/ s1 = 2 * s0
                         THEN score0' = s1 /\ score1' = s0
                         ELSE score0' = s0 /\ score1' = s1
            ELSE /\ play_pc' = "returned"
                 /\ UNCHANGED <<who, score0, score1>>]_vars

\* play has returned after a turn of player 0 that ended in a swap: it is
\* player 1 who has reached the goal.
C16_Witness ==
  /\ play_pc = "returned"
  /\ who = 1
  /\ score1 >= GOAL_SCORE
  /\ score1 = 2 * score0


\* ------------------------------------------------------------------- C17
\* bee b leaves its place for another place in this step
Hop(b) ==
  /\ bees'[b].place # bees[b].place
  /\ bees'[b].place # NoPlace

\* C17 as claimed: a bee that advances in the bee phase comes into a place
\* that colony.places lists later than the one it left, and is acted on once
\* more in the same phase.
C17_AsClaimed ==
  [][\A b \in DOMAIN bees :
       (BeeTurn(b) /\ Hop(b) /\ bees'[b].place # AntQueen) =>
         /\ PlaceIndex(bees'[b].place) > PlaceIndex(bees[b].place)
         /\ b \in Range(todo')]_vars

\* C17: no bee is acted on twice in one turn.  A bee that advances in the bee
\* phase moves one hop, to the exit of its place, which is the colony's queen
\* place or a place that colony.places lists earlier, and the phase does not
\* come back to it.
C17_ActsOnce ==
  /\ [](\A i, j \in DOMAIN Acted("bee") :
          Acted("bee")[i] = Acted("bee")[j] => i = j)
  /\ [][\A b \in DOMAIN bees :
          (BeeTurn(b) /\ Hop(b)) =>
            /\ bees'[b].place = Place_exit(bees[b].place)
            /\ \/ bees'[b].place = AntQueen
               \/ PlaceIndex(bees'[b].place) < PlaceIndex(bees[b].place)
            /\ b \notin Range(todo')]_vars

\* the bee phase is over; two bees have acted in it, once each, and one of
\* them stands one hop from the entrance of a tunnel of two places.
C17_Witness ==
  /\ pc = "while"
  /\ layout.length = 2
  /\ Len(Acted("bee")) = 2
  /\ \E b \in Range(Acted("bee")) : bees[b].place = PlaceAt(0, 0)


\* ------------------------------------------------------------------- C18
\* bee b carries an effect of this kind that has turns left
Active(b, kind) ==
  \E i \in DOMAIN bees[b].effects :
    /\ bees[b].effects[i].effect = kind
    /\ bees[b].effects[i].count < bees[b].effects[i].duration

\* C18 as claimed: a bee with a slow that has turns left does not take its
\* own action at an even time and, unless a stun holds it, takes it at an odd
\* time; a bee with a stun that has turns left never takes it.
C18_AsClaimed ==
  [][\A b \in DOMAIN bees :
       BeeTurn(b) =>
         /\ Active(b, "slow") =>
              /\ time % 2 = 0 => ~Performed(b)
              /\ (time % 2 = 1 /\ ~Active(b, "stun")) => Performed(b)
         /\ Active(b, "stun") => ~Performed(b)]_vars

\* C18: a bee with a slow that has turns left does not take its own action
\* at an odd time and, unless a stun holds it, takes it at an even time; a
\* bee with a stun that has turns left never takes it.
C18_SlowAndStun ==
  [][\A b \in DOMAIN bees :
       BeeTurn(b) =>
         /\ Active(b, "slow") =>
              /\ time % 2 = 1 => ~Performed(b)
              /\ (time % 2 = 0 /\ ~Active(b, "stun")) => Performed(b)
         /\ Active(b, "stun") => ~Performed(b)]_vars

\* a bee slowed at time 0, and by nothing else, has moved at time 0 and has
\* stayed where it was at time 1.
C18_Witness ==
  /\ time = 1
  /\ pc = "bees"
  /\ todo = << >>
  /\ bees # << >>
  /\ bees[1].effects = <<[effect |-> "slow", duration |-> 3, count |-> 2]>>
  /\ bees[1].place = PlaceAt(0, FxLength - 2)


\* ------------------------------------------------------------------- C19
\* effect i of bee b has turns left
HasTurns(b, i) ==
  bees[b].effects[i].count < bees[b].effects[i].duration

\* effect i of bee b, when it has turns left, does not call the action it
\* wraps at this time
Suppresses(b, i) ==
  /\ HasTurns(b, i)
  /\ bees[b].effects[i].effect = "slow" => time % 2 = 1

\* C19 as claimed: in a turn in which an effect applied earlier suppresses
\* the action, an effect applied later keeps its count; and of two effects on
\* a bee the later applied is never spent while the earlier has turns left.
C19_AsClaimed ==
  /\ [][\A b \in DOMAIN bees :
          BeeTurn(b) =>
            \A i, j \in DOMAIN bees[b].effects :
              (i < j /\ Suppresses(b, i)) =>
                bees'[b].effects[j].count = bees[b].effects[j].count]_vars
  /\ [](\A b \in DOMAIN bees :
          Len(bees[b].effects) = 2 =>
            ~(~HasTurns(b, 2) /\ HasTurns(b, 1)))

\* C19: in a turn of a bee an effect with turns left spends one exactly when
\* no effect applied later suppresses the action, and no other count changes:
\* in a turn in which an effect applied later suppresses the action, an effect
\* applied earlier keeps its count, and the effect applied last spends a turn
\* in every turn of the bee until it has none left.
C19_Consumption ==
  [][\A b \in DOMAIN bees :
       BeeTurn(b) =>
         /\ Len(bees'[b].effects) = Len(bees[b].effects)
         /\ \A i \in DOMAIN bees[b].effects :
              bees'[b].effects[i] =
                IF /\ HasTurns(b, i)
                   /\ \A j \in DOMAIN bees[b].effects : j > i => ~Suppresses(b, j)
                  THEN [bees[b].effects[i] EXCEPT !.count = @ + 1]
                  ELSE bees[b].effects[i]]_vars

\* a stun and then a slow were thrown at a bee at an odd time: after its turn
\* the slow has spent a turn and the stun, applied first, has spent none.
C19_Witness ==
  /\ pc = "bees"
  /\ todo = << >>
  /\ bees # << >>
  /\ bees[1].armor > 0
  /\ bees[1].effects = <<[effect |-> "stun", duration |-> 1, count |-> 0],
                         [effect |-> "slow", duration |-> 3, count |-> 1]>>


\* ------------------------------------------------------------------- C20
\* the effects of bee b after this step are those before it and one more,
\* with no turn spent
Applied(b) ==
  /\ Len(bees'[b].effects) = Len(bees[b].effects) + 1
  /\ SubSeq(bees'[b].effects, 1, Len(bees[b].effects)) = bees[b].effects
  /\ bees'[b].effects[Len(bees'[b].effects)].count = 0

\* C20: a SlowThrower or StunThrower that acts with a bee in its range
\* appends one effect, a slow of 3 or a stun of 1 with no turn spent, to the
\* effects of one such bee and leaves the effects the bees had as they were;
\* no other step adds or drops an effect, a turn of the bee only adds one to
\* counts; and no effect has ever spent more turns than its duration.
C20_EffectList ==
  /\ [](\A b \in DOMAIN bees : \A i \in DOMAIN bees[b].effects :
          bees[b].effects[i].count <= bees[b].effects[i].duration)
  /\ [][(pc = "ants" /\ todo # << >> /\ ants[Head(todo)].armor > 0
           /\ ants[Head(todo)].type \in {"Slow", "Stun"})
          => IF InRange(Head(todo)) = {}
               THEN \A b \in DOMAIN bees : bees'[b].effects = bees[b].effects
               ELSE \E b \in InRange(Head(todo)) :
                      /\ Applied(b)
                      /\ bees'[b].effects[Len(bees'[b].effects)] =
                           IF ants[Head(todo)].type = "Slow"
                             THEN [effect |-> "slow", duration |-> 3, count |-> 0]
                             ELSE [effect |-> "stun", duration |-> 1, count |-> 0]
                      /\ \A c \in DOMAIN bees \ {b} :
                           bees'[c].effects = bees[c].effects]_vars
  /\ [][\A b \in DOMAIN bees :
          /\ Len(bees'[b].effects) >= Len(bees[b].effects)
          /\ Len(bees'[b].effects) > Len(bees[b].effects) =>
               (pc = "ants" /\ Applied(b))
          /\ \A i \in DOMAIN bees[b].effects :
               /\ bees'[b].effects[i].effect = bees[b].effects[i].effect
               /\ bees'[b].effects[i].duration = bees[b].effects[i].duration
               /\ bees'[b].effects[i].count \in
                    {bees[b].effects[i].count, bees[b].effects[i].count + 1}
               /\ bees'[b].effects[i].count # bees[b].effects[i].count =>
                    BeeTurn(b)]_vars

\* a bee carries two slows, thrown in two turns, each with its own count.
C20_Witness ==
  /\ bees # << >>
  /\ bees[1].effects = <<[effect |-> "slow", duration |-> 3, count |-> 2],
                         [effect |-> "slow", duration |-> 3, count |-> 1]>>


\* ------------------------------------------------------------------- C21
\* the step in which the action of HungryAnt h runs: simulate calls it, or
\* the action of the BodyguardAnt that contains h
HungryTurn(h) ==
  /\ pc = "ants"
  /\ todo # << >>
  /\ ants[Head(todo)].armor > 0
  /\ ants[h].type = "Hungry"
  /\ \/ Head(todo) = h
     \/ ants[Head(todo)].type = "Bodyguard" /\ ants[Head(todo)].ant = h

\* C21: a HungryAnt that acts while digesting takes one from its count and
\* leaves every bee alone; one that acts with a count of 0 and a bee in its
\* place takes all the armor of one bee of the place, which is removed, and
\* sets its count to 3, so it eats again at its fourth action after; with no
\* bee in its place it changes nothing.  The count is always in 0..3 and only
\* the HungryAnt's own action changes it.
C21_Hungry ==
  /\ [](\A a \in DOMAIN ants : ants[a].digesting \in 0..3)
  /\ [][\A h \in DOMAIN ants :
          HungryTurn(h) =>
            IF ants[h].digesting > 0
              THEN /\ ants'[h].digesting = ants[h].digesting - 1
                   /\ UNCHANGED <<bees, place_bees>>
              ELSE IF place_bees[ants[h].place] = << >>
                THEN UNCHANGED <<ants, bees, place_bees>>
                ELSE /\ ants'[h].digesting = 3
                     /\ \E b \in Range(place_bees[ants[h].place]) :
                          /\ bees'[b].armor = 0
                          /\ Absent(<<"bee", b>>)'
                          /\ \A c \in DOMAIN bees \ {b} : bees'[c] = bees[c]]_vars
  /\ [][\A h \in DOMAIN ants :
          ants'[h].digesting # ants[h].digesting => HungryTurn(h)]_vars

\* a HungryAnt ate the bee of time 0, digested for three turns and has now,
\* at its fourth action after, eaten the bee of the second wave.
C21_Witness ==
  /\ time = DigestWave
  /\ Len(bees) = 2
  /\ \A b \in DOMAIN bees : bees[b].armor = 0 /\ Absent(<<"bee", b>>)
  /\ \E h \in DOMAIN ants :
       /\ ants[h].type = "Hungry"
       /\ ants[h].digesting = 3
       /\ Present(<<"ant", h>>)


\* ------------------------------------------------------------------- C22
\* the step in which the action of the true queen q runs: simulate calls it,
\* or the action of the BodyguardAnt that contains q
QueenTurn(q) ==
  /\ pc = "ants"
  /\ todo # << >>
  /\ ants[Head(todo)].armor > 0
  /\ ants[q].type = "Queen"
  /\ ants[q].is_true_queen
  /\ \/ Head(todo) = q
     \/ ants[Head(todo)].type = "Bodyguard" /\ ants[Head(todo)].ant = q

\* ant a is in the slot of a place of tunnel n, or inside the ant in it
InTunnel(a, n) ==
  /\ Present(<<"ant", a>>)
  /\ ants[a].place[1] \in {"tunnel", "water"}
  /\ ants[a].place[2] = n

\* C22: the damage of an ant is always the damage of its class, or twice
\* that once the queen has doubled it, never more.  An action of the true
\* queen in a tunnel place leaves every other ant of her tunnel, in a slot or
\* inside a container, on her exit side and on her entrance side, with twice
\* the damage of its class, leaves her own damage as it was, and leaves the
\* ants of the other tunnels as they were.
C22_Doubling ==
  /\ [](\A a \in DOMAIN ants :
          ants[a].damage = IF ants[a].damage_doubled
                             THEN 2 * AntClass[ants[a].type].damage
                             ELSE AntClass[ants[a].type].damage)
  /\ [][\A q \in DOMAIN ants :
          (QueenTurn(q) /\ ants[q].place[1] \in {"tunnel", "water"}) =>
            /\ ants'[q].damage = AntClass["Queen"].damage
            /\ ~ants'[q].damage_doubled
            /\ \A a \in DOMAIN ants \ {q} :
                 /\ InTunnel(a, ants[q].place[2]) =>
                      /\ ants'[a].damage = 2 * AntClass[ants[a].type].damage
                      /\ ants'[a].damage_doubled
                 /\ (\E n \in 0..(layout.tunnels - 1) :
                       n # ants[q].place[2] /\ InTunnel(a, n)) =>
                      ants'[a] = ants[a]]_vars

\* the true queen has acted in two turns; the ThrowerAnt of her tunnel, now
\* inside a BodyguardAnt, throws twice the damage of its class.
C22_Witness ==
  /\ time = 1
  /\ pc = "bees"
  /\ \E q, g, t \in DOMAIN ants :
       /\ ants[q].type = "Queen" /\ ants[q].is_true_queen
       /\ InTunnel(q, 0)
       /\ ants[g].type = "Bodyguard" /\ ants[g].damage_doubled
       /\ InTunnel(g, 0)
       /\ ants[g].ant = t
       /\ ants[t].type = "Thrower"
       /\ ants[t].damage = 2


\* ------------------------------------------------------------------- C23
\* the step in which the action of the impostor queen i runs: simulate calls
\* it, or the action of the BodyguardAnt that contains i
ImpostorTurn(i) ==
  /\ pc = "ants"
  /\ todo # << >>
  /\ ants[Head(todo)].armor > 0
  /\ ants[i].type = "Queen"
  /\ ~ants[i].is_true_queen
  /\ \/ Head(todo) = i
     \/ ants[Head(todo)].type = "Bodyguard" /\ ants[Head(todo)].ant = i

\* C23: the action of a QueenAnt that is not the true queen, in a slot or
\* inside a BodyguardAnt, leaves it with no armor and in no place, and
\* changes nothing else: no bee, no other ant's armor or damage, not the food,
\* not colony.queen; and simulate goes on.
C23_Impostor ==
  [][\A i \in DOMAIN ants :
       ImpostorTurn(i) =>
         /\ ants'[i].armor = 0
         /\ Absent(<<"ant", i>>)'
         /\ pc' = "ants"
         /\ UNCHANGED <<bees, place_bees, food, queen>>
         /\ \A a \in DOMAIN ants \ {i} :
              /\ ants'[a].armor = ants[a].armor
              /\ ants'[a].damage = ants[a].damage
              /\ ants'[a].place = ants[a].place]_vars


\* ------------------------------------------------------------------- C24
\* ant q is the true queen and is in a place
QueenPlaced(q) ==
  /\ ants[q].type = "Queen"
  /\ ants[q].is_true_queen
  /\ ants[q].place # NoPlace

\* the true queen q stays: her place is the same and she is in its slot or
\* inside the ant in its slot
QueenStays ==
  \A q \in DOMAIN ants :
    QueenPlaced(q) => ants'[q].place = ants[q].place /\ Present(<<"ant", q>>)'

\* C24 as stated: in every step the placed true queen stays in her place,
\* with her place set; with armor zero or less her action does not run; and
\* with armor zero or less every bee in her place is blocked.
C24_AsClaimed ==
  [][/\ QueenStays
     /\ \A q \in DOMAIN ants : ~(QueenTurn(q) /\ ants[q].armor <= 0)
     /\ \A q \in DOMAIN ants : \A b \in DOMAIN bees :
          (QueenPlaced(q) /\ ants[q].armor <= 0 /\ bees[b].place = ants[q].place)
            => InTheWay(b)]_vars

\* C24: in every step the placed true queen stays in her place, in its slot
\* or inside the ant in its slot, with her place set, whatever is called
\* (remove_ant, remove_insect, reduce_armor, a sting); when simulate comes to
\* her with armor zero or less the step changes no object; and with armor
\* zero or less every bee in her place is blocked.
C24_Queen ==
  [][/\ QueenStays
     /\ \A q \in DOMAIN ants :
          (pc = "ants" /\ todo # << >> /\ Head(todo) = q /\ QueenPlaced(q)
             /\ ants[q].armor <= 0) => UNCHANGED objects
     /\ \A q \in DOMAIN ants : \A b \in DOMAIN bees :
          (QueenPlaced(q) /\ ants[q].armor <= 0 /\ bees[b].place = ants[q].place)
            => InTheWay(b)]_vars

\* simulate has gone through the ants of a turn in which the true queen was
\* in the slot of her place with no armor left, and a bee is in her place
C24_Witness ==
  \E q \in DOMAIN ants : \E b \in DOMAIN bees :
    /\ pc = "ants"
    /\ todo = << >>
    /\ QueenPlaced(q)
    /\ ants[q].armor <= 0
    /\ place_ant[ants[q].place] = q
    /\ bees[b].place = ants[q].place
    /\ Present(<<"bee", b>>)


\* ------------------------------------------------------------------- C25
\* how many times x is in the list l
Occurrences(l, x) == Cardinality({i \in DOMAIN l : l[i] = x})

\* C25: in every state a bee whose place is set is once in the bees of that
\* place and in the bees of no other place, a bee whose place is None is in
\* the bees of no place, and an ant whose place is set is in the slot of that
\* place or inside the ant in that slot; so an insect that is in no place any
\* more has place None.
C25_References ==
  /\ \A b \in DOMAIN bees : \A p \in AllPlaces :
       Occurrences(place_bees[p], b) = IF bees[b].place = p THEN 1 ELSE 0
  /\ \A a \in DOMAIN ants :
       ants[a].place # NoPlace =>
         \/ place_ant[ants[a].place] = a
         \/ Nested(place_ant[ants[a].place]) = a
  /\ \A a \in DOMAIN ants : \A p \in AllPlaces :
       (place_ant[p] = a \/ Nested(place_ant[p]) = a) => ants[a].place = p

\* a bee has been removed from its place with no armor left while an ant sits
\* inside the ant in the slot of its place, or a bee has moved into a tunnel
\* after an ant was removed
C25_Witness ==
  \/ /\ \E b \in DOMAIN bees : bees[b].armor <= 0 /\ bees[b].place = NoPlace
     /\ \E a \in DOMAIN ants :
          ants[a].place # NoPlace /\ Nested(place_ant[ants[a].place]) = a
  \/ /\ \E b \in DOMAIN bees : bees[b].place[1] = "tunnel"
     /\ \E a \in DOMAIN ants :
          ants[a].type # "Remover" /\ ants[a].armor <= 0 /\ ants[a].place = NoPlace


\* ------------------------------------------------------------------- C26
\* the ants that are in the slot of a place or inside the ant in a slot
Placed ==
  {a \in DOMAIN ants : \E p \in AllPlaces : place_ant[p] = a \/ Nested(place_ant[p]) = a}

\* the bees that are in the bees of a place
Flying ==
  {b \in DOMAIN bees : \E p \in AllPlaces : Occurrences(place_bees[p], b) > 0}

BodyguardTurn(g) ==
  /\ pc = "ants"
  /\ todo # << >>
  /\ Head(todo) = g
  /\ ants[g].type = "Bodyguard"
  /\ ants[g].armor > 0

\* the step takes ant a out of the slot of its place
SlotAntLeaves(a) ==
  /\ ants[a].place # NoPlace
  /\ place_ant[ants[a].place] = a
  /\ ants'[a].place = NoPlace

\* C27: the turn of a BodyguardAnt changes the objects as the action of the
\* ant it contains does, and changes nothing if it contains none; and a step
\* that removes the ant in the slot of a place (remove_ant, a sting that takes
\* its last armor) leaves in the slot the ant it contained, with the same
\* place as before, or leaves the slot empty if it contained none.
C27_Container ==
  [][/\ \A g \in DOMAIN ants :
          BodyguardTurn(g) =>
            IF ants[g].ant = 0 THEN UNCHANGED objects
            ELSE \E target \in targets(World, ants[g].ant) :
                   \E W \in {own_action(World, ants[g].ant, target)} :
                     /\ ants' = W.ants
                     /\ bees' = W.bees
                     /\ place_ant' = W.place_ant
                     /\ place_bees' = W.place_bees
                     /\ food' = W.food
                     /\ queen' = W.queen
     /\ \A a \in DOMAIN ants :
          SlotAntLeaves(a) =>
            /\ place_ant'[ants[a].place] = ants[a].ant
            /\ ants[a].ant # 0 =>
                 /\ ants'[ants[a].ant].place = ants[a].place
                 /\ ants'[ants[a].ant].armor = ants[ants[a].ant].armor]_vars

\* a BodyguardAnt that held the true queen has had its turn this tick and was
\* then stung out of its place, which now has the queen in its slot
C27_Witness ==
  \E g \in DOMAIN ants :
    /\ ants[g].type = "Bodyguard"
    /\ ants[g].armor <= 0
    /\ ants[g].place = NoPlace
    /\ ants[g].ant # 0
    /\ ants[ants[g].ant].is_true_queen
    /\ ants[ants[g].ant].place # NoPlace
    /\ place_ant[ants[ants[g].ant].place] = ants[g].ant
    /\ \E i \in DOMAIN log : log[i] = <<"ant", g>>


WaveEnters ==
  pc = "hive" =>
    /\ \A b \in Range(plan_get(time)) :
         /\ bees[b].armor > 0
         /\ bees[b].place = Hive
         /\ Occurrences(place_bees[Hive], b) = 1
         /\ bees'[b].place \in bee_entrances
    /\ pc' = "strategy"

\* no step takes armor from a bee that is in the Hive
HiveBeesUnhurt ==
  \A b \in DOMAIN bees :
    bees[b].place = Hive => bees'[b].armor = bees[b].armor

\* the turn of a bee that is in the Hive changes no ant
HiveBeesIdle ==
  \A b \in DOMAIN bees :
    (BeeTurn(b) /\ bees[b].place = Hive) => ants' = ants

\* C29: whatever the strategy has deployed, in the Hive too, every step of
\* Hive.strategy finds the bees of the turn alive and in the Hive and moves
\* them to an entrance without an exception, no step takes armor from a bee
\* that is in the Hive, and a bee in the Hive does not sting.
C29_Hive == [][WaveEnters /\ HiveBeesUnhurt /\ HiveBeesIdle]_vars


\* ------------------------------------------------------------------- C30
\* C30: every bee whose turn simulate runs is in a registered place, the Hive
\* or a place of a tunnel, never in the queen's place and never in none; its
\* turn raises nothing; and if it has moved it is in a place again, so its
\* move had a place to go to.
C30_Advance ==
  [][\A b \in DOMAIN bees :
       BeeTurn(b) =>
         /\ bees[b].place \in Range(places)
         /\ bees[b].place # AntQueen
         /\ pc' = "bees"
         /\ (bees'[b].place # bees[b].place /\ bees'[b].armor > 0)
              => bees'[b].place \in AllPlaces]_vars

\* a bee has moved into the queen's place and simulate is still going through
\* the bees of the turn
C30_Witness ==
  /\ pc = "bees"
  /\ todo # << >>
  /\ \E b \in DOMAIN bees : bees[b].place = AntQueen /\ Present(<<"bee", b>>)


\* ------------------------------------------------------------------- C31
\* the call deploy_ant(place_name, 'Queen') of this step places no ant: the
\* food is short, the place name is unknown, or add_insect refuses the ant
QueenDeployFails(place_name) ==
  /\ DeployAntCall(place_name, "Queen")
  /\ Len(ants') = Len(ants)

\* the QueenAnts that have been placed
PlacedQueens == {a \in DOMAIN ants : ants[a].type = "Queen"}

\* C31: a deploy_ant for a QueenAnt that places no ant leaves
\* QueenAnt.is_true_queen as it was, so that in every state in which a QueenAnt
\* has been placed exactly one of the placed QueenAnts is the true queen.
C31_Designation ==
  [][/\ \A place_name \in PlaceNames :
          QueenDeployFails(place_name) => is_true_queen' = is_true_queen
     /\ PlacedQueens' # {} =>
          Cardinality({a \in PlacedQueens' : ants'[a].is_true_queen}) = 1]_vars

====
